---- MODULE Spec2Model ----
(***************************************************************************)
(* Model of the clinical scoring engine of the sepsis_prediction           *)
(* repository (src/clinical_scoring.py, class SepsisScoring) and of the    *)
(* single instance of it that src/app.py shares between all requests.      *)
(*                                                                         *)
(* Numbers.  The calculators only ever COMPARE their numeric inputs with   *)
(* literal thresholds (no arithmetic is done on a float), so a decimal     *)
(* input is modelled exactly as a scaled integer:                          *)
(*   bilirubin, creatinine, vasopressor doses : hundredths (1.2 -> 120)    *)
(*   lactate, temperature                     : tenths     (2.0 -> 20)     *)
(*   everything else (thresholds are whole)   : units                      *)
(* Optional arguments are <<>> (None / not given) or <<v>>.                *)
(* Strings that the code inspects (level_of_consciousness) are sequences   *)
(* of one-character strings.  Result texts are written in ASCII (the       *)
(* source's ">=" sign in two of them is the single character U+2265).      *)
(*                                                                         *)
(* SpecApp models the request handlers of src/app.py over the three tables *)
(* (User, Patient, SofaTest) and the login session of each browser; every  *)
(* action is one whole request, from routing to the committed answer.      *)
(***************************************************************************)
EXTENDS Integers, Sequences, FiniteSets, TLC

VARIABLES
    sofa_criteria,  \* the only field of the shared SepsisScoring instance
    call,           \* Spec: the last invocation made, [op, args]
    result,         \* Spec: what that invocation returned
    frames,         \* SpecShared: the call in progress of every caller
    locals,         \* SpecShared: the local dict of each call frame
    users,          \* SpecApp: the User table, in insertion order (id = position)
    patients,       \* SpecApp: the Patient table, rows [id, doctor_id]
    sofa_tests,     \* SpecApp: the SofaTest table, in timestamp order
    sessions,       \* SpecApp: per browser, the id of the logged-in user or None
    response        \* SpecApp: the request handled last and its answer

app_vars == <<users, patients, sofa_tests, sessions, response>>

vars == <<sofa_criteria, call, result, frames, locals, app_vars>>

-----------------------------------------------------------------------------
(* Python values *)

None == <<>>

Some(v) == <<v>>

\* The value bound to a parameter with a default: the default when the
\* caller does not pass the argument.
Bind(arg, default) == IF arg = None THEN default ELSE arg[1]

\* sum(d.values()) of a dict d of integers
RECURSIVE SumOver(_, _)
SumOver(d, keys) ==
    IF keys = {} THEN 0
    ELSE LET k == CHOOSE x \in keys : TRUE
         IN  d[k] + SumOver(d, keys \ {k})

SumValues(d) == SumOver(d, DOMAIN d)

\* sum(d.values()) of a dict d of bools: True counts 1, False 0
SumBools(d) == Cardinality({k \in DOMAIN d : d[k]})

\* all(d.values()) of a dict of bools
AllValues(d) == \A k \in DOMAIN d : d[k]

\* d[k] = v on a dict: adds the key or overwrites it
Put(d, k, v) == [x \in (DOMAIN d) \cup {k} |-> IF x = k THEN v ELSE d[x]]

EmptyDict == [x \in {} |-> 0]

Min(a, b) == IF a <= b THEN a ELSE b

Max(a, b) == IF a >= b THEN a ELSE b

-----------------------------------------------------------------------------
(* SepsisScoring.__init__ *)

\* float('inf') in the tables: above every value the model uses
Inf == 1000000

initialize_sofa_criteria ==
    [ respiration |->
        [ name |-> "PaO2/FiO2 (mmHg)",
          ranges |-> << <<400, Inf, 0>>, <<300, 399, 1>>, <<200, 299, 2>>,
                        <<100, 199, 3>>, <<0, 99, 4>> >>,
          respiratory_support_needed |-> <<FALSE, FALSE, FALSE, TRUE, TRUE>> ],
      coagulation |->
        [ name |-> "Platelets (x10^3/uL)",
          ranges |-> << <<150, Inf, 0>>, <<100, 149, 1>>, <<50, 99, 2>>,
                        <<20, 49, 3>>, <<0, 19, 4>> >> ],
      liver |->
        [ name |-> "Bilirubin (mg/dL)",
          ranges |-> << <<0, 120, 0>>, <<120, 190, 1>>, <<200, 590, 2>>,
                        <<600, 1190, 3>>, <<1200, Inf, 4>> >> ],
      cardiovascular |->
        [ name |-> "MAP and vasopressor requirements", criteria |-> "complex" ],
      cns |->
        [ name |-> "Glasgow Coma Scale",
          ranges |-> << <<15, 15, 0>>, <<13, 14, 1>>, <<10, 12, 2>>,
                        <<6, 9, 3>>, <<0, 5, 4>> >> ],
      renal |->
        [ name |-> "Creatinine (mg/dL) or urine output", criteria |-> "complex" ] ]

-----------------------------------------------------------------------------
(* SOFA sub-scorers *)

\* A plausible slip: bands 3 and 4 given without looking at the support flag.
sofa_respiration_support_ignored(pao2_fio2, respiratory_support) ==
    IF pao2_fio2 >= 400 THEN 0
    ELSE IF pao2_fio2 < 400 /\ pao2_fio2 >= 300 THEN 1
    ELSE IF pao2_fio2 < 300 /\ pao2_fio2 >= 200 THEN 2
    ELSE IF pao2_fio2 < 200 /\ pao2_fio2 >= 100 THEN 3
    ELSE IF pao2_fio2 < 100 THEN 4
    ELSE 2

\* The source line of the return statement a call leaves through.
sofa_respiration_return_line(pao2_fio2, respiratory_support) ==
    IF pao2_fio2 >= 400 THEN 52
    ELSE IF pao2_fio2 < 400 /\ pao2_fio2 >= 300 THEN 54
    ELSE IF pao2_fio2 < 300 /\ pao2_fio2 >= 200 THEN 56
    ELSE IF pao2_fio2 < 200 /\ pao2_fio2 >= 100 /\ respiratory_support THEN 59
    ELSE IF pao2_fio2 < 100 /\ respiratory_support THEN 61
    ELSE IF pao2_fio2 < 200 THEN 64
    ELSE 66

calculate_sofa_respiration(pao2_fio2, respiratory_support) ==
    IF pao2_fio2 >= 400 THEN 0
    ELSE IF pao2_fio2 < 400 /\ pao2_fio2 >= 300 THEN 1
    ELSE IF pao2_fio2 < 300 /\ pao2_fio2 >= 200 THEN 2
    ELSE IF pao2_fio2 < 200 /\ pao2_fio2 >= 100 /\ respiratory_support THEN 3
    ELSE IF pao2_fio2 < 100 /\ respiratory_support THEN 4
    ELSE IF pao2_fio2 < 200 THEN 2
    ELSE 2

\* A plausible slip: the bands opened at their lower boundary.
sofa_coagulation_open_boundaries(platelets) ==
    IF platelets > 150 THEN 0
    ELSE IF platelets > 100 THEN 1
    ELSE IF platelets > 50 THEN 2
    ELSE IF platelets > 20 THEN 3
    ELSE 4

calculate_sofa_coagulation(platelets) ==
    IF platelets >= 150 THEN 0
    ELSE IF platelets >= 100 THEN 1
    ELSE IF platelets >= 50 THEN 2
    ELSE IF platelets >= 20 THEN 3
    ELSE 4

\* bilirubin in hundredths of mg/dL
calculate_sofa_liver(bilirubin) ==
    IF bilirubin < 120 THEN 0
    ELSE IF bilirubin <= 190 THEN 1
    ELSE IF bilirubin <= 590 THEN 2
    ELSE IF bilirubin <= 1190 THEN 3
    ELSE 4

\* A plausible slip: the band-2 dopamine range written without its upper end.
cardiovascular_band2_unbounded(map_mmhg, dopamine_dose, dobutamine_dose, epinephrine_dose, norepinephrine_dose) ==
    IF \A d \in {dopamine_dose, dobutamine_dose, epinephrine_dose,
                 norepinephrine_dose} : d = 0
    THEN (IF map_mmhg >= 70 THEN 0 ELSE 1)
    ELSE IF dopamine_dose > 0 \/ dobutamine_dose > 0 THEN 2
    ELSE IF (epinephrine_dose > 0 /\ epinephrine_dose <= 10)
            \/ (norepinephrine_dose > 0 /\ norepinephrine_dose <= 10) THEN 3
    ELSE IF epinephrine_dose > 10 \/ norepinephrine_dose > 10 THEN 4
    ELSE 1

\* A plausible slip: the bands tested from the most severe down.
cardiovascular_highest_band_first(map_mmhg, dopamine_dose, dobutamine_dose, epinephrine_dose, norepinephrine_dose) ==
    IF \A d \in {dopamine_dose, dobutamine_dose, epinephrine_dose,
                 norepinephrine_dose} : d = 0
    THEN (IF map_mmhg >= 70 THEN 0 ELSE 1)
    ELSE IF dopamine_dose > 1500 \/ epinephrine_dose > 10
            \/ norepinephrine_dose > 10
         THEN 4
    ELSE IF (dopamine_dose > 500 /\ dopamine_dose <= 1500)
            \/ (epinephrine_dose > 0 /\ epinephrine_dose <= 10)
            \/ (norepinephrine_dose > 0 /\ norepinephrine_dose <= 10)
         THEN 3
    ELSE IF (dopamine_dose > 0 /\ dopamine_dose <= 500) \/ dobutamine_dose > 0
         THEN 2
    ELSE 1

\* A plausible slip: the no-vasopressor test looking at dopamine alone.
cardiovascular_only_dopamine_tested(map_mmhg, dopamine_dose, dobutamine_dose, epinephrine_dose, norepinephrine_dose) ==
    IF dopamine_dose = 0
    THEN (IF map_mmhg >= 70 THEN 0 ELSE 1)
    ELSE IF (dopamine_dose > 0 /\ dopamine_dose <= 500) \/ dobutamine_dose > 0
         THEN 2
    ELSE IF (dopamine_dose > 500 /\ dopamine_dose <= 1500)
            \/ (epinephrine_dose > 0 /\ epinephrine_dose <= 10)
            \/ (norepinephrine_dose > 0 /\ norepinephrine_dose <= 10)
         THEN 3
    ELSE IF dopamine_dose > 1500 \/ epinephrine_dose > 10
            \/ norepinephrine_dose > 10
         THEN 4
    ELSE 1

\* The source line of the return statement a call leaves through.
sofa_cardiovascular_return_line(map_mmhg, dopamine_dose, dobutamine_dose, epinephrine_dose, norepinephrine_dose) ==
    IF \A d \in {dopamine_dose, dobutamine_dose, epinephrine_dose,
                 norepinephrine_dose} : d = 0
    THEN (IF map_mmhg >= 70 THEN 103 ELSE 105)
    ELSE IF (dopamine_dose > 0 /\ dopamine_dose <= 500) \/ dobutamine_dose > 0
         THEN 110
    ELSE IF (dopamine_dose > 500 /\ dopamine_dose <= 1500)
            \/ (epinephrine_dose > 0 /\ epinephrine_dose <= 10)
            \/ (norepinephrine_dose > 0 /\ norepinephrine_dose <= 10)
         THEN 115
    ELSE IF dopamine_dose > 1500 \/ epinephrine_dose > 10
            \/ norepinephrine_dose > 10
         THEN 118
    ELSE 121

\* doses in hundredths of mcg/kg/min
calculate_sofa_cardiovascular(map_mmhg, dopamine_dose, dobutamine_dose, epinephrine_dose, norepinephrine_dose) ==
    IF \A d \in {dopamine_dose, dobutamine_dose, epinephrine_dose,
                 norepinephrine_dose} : d = 0
    THEN (IF map_mmhg >= 70 THEN 0 ELSE 1)
    ELSE IF (dopamine_dose > 0 /\ dopamine_dose <= 500) \/ dobutamine_dose > 0
         THEN 2
    ELSE IF (dopamine_dose > 500 /\ dopamine_dose <= 1500)
            \/ (epinephrine_dose > 0 /\ epinephrine_dose <= 10)
            \/ (norepinephrine_dose > 0 /\ norepinephrine_dose <= 10)
         THEN 3
    ELSE IF dopamine_dose > 1500 \/ epinephrine_dose > 10
            \/ norepinephrine_dose > 10
         THEN 4
    ELSE 1

\* A plausible slip: the last band left at 5.
sofa_cns_scale_overrun(gcs) ==
    IF gcs = 15 THEN 0
    ELSE IF 13 <= gcs /\ gcs <= 14 THEN 1
    ELSE IF 10 <= gcs /\ gcs <= 12 THEN 2
    ELSE IF 6 <= gcs /\ gcs <= 9 THEN 3
    ELSE 5

\* A plausible slip: everything from 15 up taken as a normal score.
sofa_cns_above_scale_normal(gcs) ==
    IF gcs >= 15 THEN 0
    ELSE IF 13 <= gcs /\ gcs <= 14 THEN 1
    ELSE IF 10 <= gcs /\ gcs <= 12 THEN 2
    ELSE IF 6 <= gcs /\ gcs <= 9 THEN 3
    ELSE 4

calculate_sofa_cns(gcs) ==
    IF gcs = 15 THEN 0
    ELSE IF 13 <= gcs /\ gcs <= 14 THEN 1
    ELSE IF 10 <= gcs /\ gcs <= 12 THEN 2
    ELSE IF 6 <= gcs /\ gcs <= 9 THEN 3
    ELSE 4

\* A plausible slip: "not urine_output_ml_day" written for "is None", so
\* that an output of 0 counts as not supplied.
sofa_renal_zero_urine_absent(creatinine, urine_output_ml_day) ==
    LET creat_score ==
            IF creatinine >= 500 THEN 4
            ELSE IF creatinine >= 350 THEN 3
            ELSE IF creatinine >= 200 THEN 2
            ELSE IF creatinine >= 120 THEN 1
            ELSE 0
    IN  IF urine_output_ml_day = None \/ urine_output_ml_day = Some(0)
        THEN creat_score
        ELSE LET urine_score ==
                     IF urine_output_ml_day[1] < 200 THEN 4
                     ELSE IF urine_output_ml_day[1] < 500 THEN 1
                     ELSE 0
             IN  Max(creat_score, urine_score)

\* creatinine in hundredths of mg/dL; urine output None or Some(mL/day)
calculate_sofa_renal(creatinine, urine_output_ml_day) ==
    LET creat_score ==
            IF creatinine >= 500 THEN 4
            ELSE IF creatinine >= 350 THEN 3
            ELSE IF creatinine >= 200 THEN 2
            ELSE IF creatinine >= 120 THEN 1
            ELSE 0
    IN  IF urine_output_ml_day = None THEN creat_score
        ELSE LET urine_score ==
                     IF urine_output_ml_day[1] < 200 THEN 4
                     ELSE IF urine_output_ml_day[1] < 500 THEN 1
                     ELSE 0
             IN  Max(creat_score, urine_score)

-----------------------------------------------------------------------------
(* SOFA aggregator *)

SepsisSuffix == " - SEPSIS CRITERIA MET (acute increase >=2 points)"

interpret_sofa_score(total_sofa, sepsis_criteria) ==
    IF total_sofa = 0
    THEN "Normal organ function - no signs of organ dysfunction"
    ELSE LET interpretation ==
                 IF total_sofa <= 6 THEN "Mild to moderate organ dysfunction"
                 ELSE IF total_sofa <= 12 THEN "Severe organ dysfunction"
                 ELSE "Very severe organ dysfunction - critical condition"
         IN  IF sepsis_criteria THEN interpretation \o SepsisSuffix
             ELSE interpretation

\* The six sub-scores of one snapshot a (the dict built at lines 166-175).
sofa_scores(a) ==
    [ respiration    |-> calculate_sofa_respiration(a.pao2_fio2,
                                                    a.respiratory_support),
      coagulation    |-> calculate_sofa_coagulation(a.platelets),
      liver          |-> calculate_sofa_liver(a.bilirubin),
      cardiovascular |-> calculate_sofa_cardiovascular(a.map_mmhg,
                             a.dopamine_dose, a.dobutamine_dose,
                             a.epinephrine_dose, a.norepinephrine_dose),
      cns            |-> calculate_sofa_cns(a.gcs),
      renal          |-> calculate_sofa_renal(a.creatinine,
                                              a.urine_output_ml_day) ]

\* A plausible slip: the sepsis flag taken from the total, not the delta.
sofa_summary_flag_from_total(scores, baseline_sofa) ==
    LET total_sofa == SumValues(scores)
        delta_sofa == total_sofa - baseline_sofa
        sepsis_criteria_met == total_sofa >= 2
    IN  [ individual_scores |-> scores,
          total_sofa |-> total_sofa,
          baseline_sofa |-> baseline_sofa,
          delta_sofa |-> delta_sofa,
          sepsis_criteria_met |-> sepsis_criteria_met,
          estimated_mortality_risk_percent |-> Min(10 + (total_sofa * 5), 90),
          interpretation |->
              interpret_sofa_score(total_sofa, sepsis_criteria_met) ]

\* A plausible slip: the mortality estimate left without its cap.
sofa_summary_uncapped(scores, baseline_sofa) ==
    LET total_sofa == SumValues(scores)
        delta_sofa == total_sofa - baseline_sofa
        sepsis_criteria_met == delta_sofa >= 2
    IN  [ individual_scores |-> scores,
          total_sofa |-> total_sofa,
          baseline_sofa |-> baseline_sofa,
          delta_sofa |-> delta_sofa,
          sepsis_criteria_met |-> sepsis_criteria_met,
          estimated_mortality_risk_percent |-> 10 + (total_sofa * 5),
          interpretation |->
              interpret_sofa_score(total_sofa, sepsis_criteria_met) ]

\* Lines 176-188: what calculate_total_sofa derives from the sub-scores.
sofa_summary(scores, baseline_sofa) ==
    LET total_sofa == SumValues(scores)
        delta_sofa == total_sofa - baseline_sofa
        sepsis_criteria_met == delta_sofa >= 2
    IN  [ individual_scores |-> scores,
          total_sofa |-> total_sofa,
          baseline_sofa |-> baseline_sofa,
          delta_sofa |-> delta_sofa,
          sepsis_criteria_met |-> sepsis_criteria_met,
          estimated_mortality_risk_percent |-> Min(10 + (total_sofa * 5), 90),
          interpretation |->
              interpret_sofa_score(total_sofa, sepsis_criteria_met) ]

\* a: the arguments as the caller gives them; baseline_sofa may be left out.
calculate_total_sofa(a) ==
    sofa_summary(sofa_scores(a), Bind(a.baseline_sofa, 0))

-----------------------------------------------------------------------------
(* qSOFA *)

\* A plausible slip: the score looked at before the infection flag.
interpret_qsofa_score_first(score, high_risk, suspected_infection) ==
    IF score >= 2
    THEN "HIGH RISK - qSOFA >=2 suggests increased risk of poor outcomes (ICU stay, death)"
    ELSE IF ~suspected_infection
    THEN "qSOFA should be used in patients with suspected infection"
    ELSE IF score = 0 THEN "Low risk - no qSOFA criteria met"
    ELSE IF score = 1
         THEN "Intermediate risk - one qSOFA criterion met, monitor closely"
    ELSE "Invalid qSOFA score."

interpret_qsofa(score, high_risk, suspected_infection) ==
    IF ~suspected_infection
    THEN "qSOFA should be used in patients with suspected infection"
    ELSE IF score = 0 THEN "Low risk - no qSOFA criteria met"
    ELSE IF score = 1
         THEN "Intermediate risk - one qSOFA criterion met, monitor closely"
    ELSE IF score >= 2
         THEN "HIGH RISK - qSOFA >=2 suggests increased risk of poor outcomes (ICU stay, death)"
    ELSE "Invalid qSOFA score."

get_qsofa_recommendations(score, suspected_infection) ==
    IF ~suspected_infection THEN "Assess for infection source first"
    ELSE IF score >= 2
         THEN "Consider ICU evaluation, escalate care, consider full SOFA scoring"
    ELSE IF score = 1
         THEN "Increase monitoring frequency, reassess regularly"
    ELSE "Continue routine care with infection monitoring"

\* Lines 208-212: the early return when an input is None.
qsofa_missing_input ==
    [ qsofa_score |-> None,
      error |-> "Missing one or more required inputs (respiratory rate, SBP, or GCS)." ]

\* A plausible slip: the blood-pressure criterion made strict.
qsofa_criteria_strict_bp(respiratory_rate, systolic_bp, gcs) ==
    [ respiratory_rate_22_or_higher |-> respiratory_rate >= 22,
      altered_mentation |-> gcs < 15,
      systolic_bp_100_or_lower |-> systolic_bp < 100 ]

\* Lines 214-218: the three criteria, on inputs that are present.
qsofa_criteria(respiratory_rate, systolic_bp, gcs) ==
    [ respiratory_rate_22_or_higher |-> respiratory_rate >= 22,
      altered_mentation |-> gcs < 15,
      systolic_bp_100_or_lower |-> systolic_bp <= 100 ]

\* A plausible slip: "not v" written for "v is None", so that a reading of 0
\* counts as missing.
qsofa_any_falsy(respiratory_rate, systolic_bp, gcs) ==
    \E v \in {respiratory_rate, systolic_bp, gcs} : v = None \/ v = Some(0)

\* Line 208: any(v is None for v in [respiratory_rate, systolic_bp, gcs])
qsofa_any_missing(respiratory_rate, systolic_bp, gcs) ==
    \E v \in {respiratory_rate, systolic_bp, gcs} : v = None

\* Lines 219-229: the result built from the criteria dict.
qsofa_result(criteria, suspected_infection) ==
    LET qsofa_score == SumBools(criteria)
        high_risk == qsofa_score >= 2
    IN  [ criteria_met |-> criteria,
          qsofa_score |-> qsofa_score,
          high_risk_for_poor_outcomes |-> high_risk,
          suspected_infection |-> suspected_infection,
          interpretation |->
              interpret_qsofa(qsofa_score, high_risk, suspected_infection),
          recommendations |->
              get_qsofa_recommendations(qsofa_score, suspected_infection) ]

\* respiratory_rate, systolic_bp, gcs: None or Some(value)
calculate_qsofa(respiratory_rate, systolic_bp, gcs, suspected_infection) ==
    IF qsofa_any_missing(respiratory_rate, systolic_bp, gcs)
    THEN qsofa_missing_input
    ELSE qsofa_result(qsofa_criteria(respiratory_rate[1], systolic_bp[1],
                                     gcs[1]),
                      suspected_infection)

-----------------------------------------------------------------------------
(* Septic shock *)

interpret_septic_shock(shock_present, criteria) ==
    IF shock_present
    THEN "SEPTIC SHOCK PRESENT - Profound circulatory and metabolic abnormalities. Hospital mortality >40%. Requires immediate intensive care."
    ELSE " SEPTIC SHOCK NOT PRESENT "

\* A plausible slip: the lactate criterion made inclusive.
septic_shock_criteria_lactate_inclusive(map_mmhg, lactate_mmol_l, on_vasopressors, adequate_volume_resus, sepsis_present) ==
    [ sepsis_present |-> sepsis_present,
      persistent_hypotension_on_vasopressors |->
          on_vasopressors /\ map_mmhg >= 65,
      lactate_greater_than_2 |-> lactate_mmol_l >= 20,
      adequate_volume_resuscitation |-> adequate_volume_resus ]

\* Lines 256-261; lactate in tenths of mmol/L
septic_shock_criteria(map_mmhg, lactate_mmol_l, on_vasopressors, adequate_volume_resus, sepsis_present) ==
    [ sepsis_present |-> sepsis_present,
      persistent_hypotension_on_vasopressors |->
          on_vasopressors /\ map_mmhg >= 65,
      lactate_greater_than_2 |-> lactate_mmol_l > 20,
      adequate_volume_resuscitation |-> adequate_volume_resus ]

\* Lines 262-269: the result built from the criteria dict.
septic_shock_result(criteria) ==
    LET septic_shock == AllValues(criteria)
    IN  [ criteria |-> criteria,
          septic_shock_present |-> septic_shock,
          estimated_mortality_risk |->
              IF septic_shock THEN ">40%"
              ELSE "Variable based on other factors",
          interpretation |-> interpret_septic_shock(septic_shock, criteria) ]

assess_septic_shock(map_mmhg, lactate_mmol_l, on_vasopressors, adequate_volume_resus, sepsis_present) ==
    septic_shock_result(septic_shock_criteria(map_mmhg, lactate_mmol_l,
                            on_vasopressors, adequate_volume_resus,
                            sepsis_present))

-----------------------------------------------------------------------------
(* NEWS2 *)

\* A plausible slip: the High band made strict.
interpret_news2_high_strict(total_score, score_map) ==
    LET has_score_3 == \E k \in DOMAIN score_map : score_map[k] = 3
    IN  IF total_score > 7
        THEN << "High", "EMERGENCY RESPONSE: Clinical urgency high. Immediate senior clinical review and continuous monitoring required." >>
        ELSE IF total_score >= 5
        THEN << "Medium", "URGENT REVIEW: Review by a clinician/doctor competent in acute illness. Monitor every hour." >>
        ELSE IF has_score_3
        THEN << "Low-Medium", "ROUTINE MONITORING:  Urgent Ward-based care. Monitor every 4-12 hours." >>
        ELSE << "Low", "ROUTINE MONITORING:  Ward-based care. Monitor every 4-12 hours." >>

\* Returns the pair <<risk, recommendation>>.
interpret_news2(total_score, score_map) ==
    LET has_score_3 == \E k \in DOMAIN score_map : score_map[k] = 3
    IN  IF total_score >= 7
        THEN << "High", "EMERGENCY RESPONSE: Clinical urgency high. Immediate senior clinical review and continuous monitoring required." >>
        ELSE IF total_score >= 5
        THEN << "Medium", "URGENT REVIEW: Review by a clinician/doctor competent in acute illness. Monitor every hour." >>
        ELSE IF has_score_3
        THEN << "Low-Medium", "ROUTINE MONITORING:  Urgent Ward-based care. Monitor every 4-12 hours." >>
        ELSE << "Low", "ROUTINE MONITORING:  Ward-based care. Monitor every 4-12 hours." >>

\* Lines 310-318.  No branch is taken for 25..31: the key is then not set.
news2_respiratory_rate(score, respiratory_rate) ==
    IF 12 <= respiratory_rate /\ respiratory_rate <= 20
    THEN Put(score, "respiratory_rate", 0)
    ELSE IF 9 <= respiratory_rate /\ respiratory_rate <= 11
    THEN Put(score, "respiratory_rate", 1)
    ELSE IF 21 <= respiratory_rate /\ respiratory_rate <= 24
    THEN Put(score, "respiratory_rate", 2)
    ELSE IF respiratory_rate <= 8 \/ respiratory_rate >= 32
    THEN Put(score, "respiratory_rate", 3)
    ELSE score

\* Lines 320-328
news2_spo2_scale_1(score, SpO2_Scale_1) ==
    IF SpO2_Scale_1 >= 96 THEN Put(score, "oxygen_saturation", 0)
    ELSE IF 94 <= SpO2_Scale_1 /\ SpO2_Scale_1 <= 95
    THEN Put(score, "SpO2_Scale_1", 1)
    ELSE IF 92 <= SpO2_Scale_1 /\ SpO2_Scale_1 <= 93
    THEN Put(score, "SpO2_Scale_1", 2)
    ELSE Put(score, "SpO2_Scale_1", 3)

\* A plausible slip: each chained comparison read as the range it looks like.
news2_spo2_scale_2_as_ranges(score, SpO2_Scale_2, supplemental_oxygen) ==
    IF (88 <= SpO2_Scale_2 /\ SpO2_Scale_2 <= 92)
       \/ (~supplemental_oxygen /\ SpO2_Scale_2 >= 93)
    THEN Put(score, "oxygen_saturation", 0)
    ELSE IF (86 <= SpO2_Scale_2 /\ SpO2_Scale_2 <= 87)
            \/ (supplemental_oxygen /\ 93 <= SpO2_Scale_2 /\ SpO2_Scale_2 <= 94)
    THEN Put(score, "SpO2_Scale_2", 1)
    ELSE IF (84 <= SpO2_Scale_2 /\ SpO2_Scale_2 <= 85)
            \/ (supplemental_oxygen /\ 95 <= SpO2_Scale_2 /\ SpO2_Scale_2 <= 96)
    THEN Put(score, "SpO2_Scale_2", 2)
    ELSE Put(score, "SpO2_Scale_2", 3)

\* Lines 330-338.  Python's chained a <= x >= b is (a <= x) and (x >= b).
news2_spo2_scale_2(score, SpO2_Scale_2, supplemental_oxygen) ==
    IF (88 <= SpO2_Scale_2 /\ SpO2_Scale_2 >= 92)
       \/ (~supplemental_oxygen /\ SpO2_Scale_2 >= 93)
    THEN Put(score, "oxygen_saturation", 0)
    ELSE IF (86 <= SpO2_Scale_2 /\ SpO2_Scale_2 <= 87)
            \/ (supplemental_oxygen /\ 93 <= SpO2_Scale_2 /\ SpO2_Scale_2 >= 94)
    THEN Put(score, "SpO2_Scale_2", 1)
    ELSE IF (84 <= SpO2_Scale_2 /\ SpO2_Scale_2 <= 85)
            \/ (supplemental_oxygen /\ 95 <= SpO2_Scale_2 /\ SpO2_Scale_2 >= 96)
    THEN Put(score, "SpO2_Scale_2", 2)
    ELSE Put(score, "SpO2_Scale_2", 3)

\* Lines 340-347
news2_age(score, Age) ==
    IF Age < 40 THEN Put(score, "Age", 0)
    ELSE IF 40 <= Age /\ Age <= 65 THEN Put(score, "Age", 1)
    ELSE IF 66 <= Age /\ Age <= 79 THEN Put(score, "Age", 2)
    ELSE IF Age >= 80 THEN Put(score, "Age", 3)
    ELSE score

\* Line 351
news2_fio2(score, supplemental_oxygen) ==
    Put(score, "Fio2", IF supplemental_oxygen THEN 2 ELSE 0)

\* Lines 353-361
news2_systolic_bp(score, systolic_bp) ==
    IF 111 <= systolic_bp /\ systolic_bp <= 219
    THEN Put(score, "systolic_bp", 0)
    ELSE IF 101 <= systolic_bp /\ systolic_bp <= 110
    THEN Put(score, "systolic_bp", 1)
    ELSE IF 91 <= systolic_bp /\ systolic_bp <= 100
    THEN Put(score, "systolic_bp", 2)
    ELSE Put(score, "systolic_bp", 3)

\* Lines 363-371
news2_heart_rate(score, heart_rate) ==
    IF 51 <= heart_rate /\ heart_rate <= 90 THEN Put(score, "heart_rate", 0)
    ELSE IF (41 <= heart_rate /\ heart_rate <= 50)
            \/ (91 <= heart_rate /\ heart_rate <= 110)
    THEN Put(score, "heart_rate", 1)
    ELSE IF 111 <= heart_rate /\ heart_rate <= 130
    THEN Put(score, "heart_rate", 2)
    ELSE Put(score, "heart_rate", 3)

\* str.upper() on one character (the letters the model's strings use)
UpperChar(c) ==
    CASE c = "a" -> "A" [] c = "l" -> "L" [] c = "e" -> "E" [] c = "r" -> "R"
      [] c = "t" -> "T" [] c = "o" -> "O" [] c = "i" -> "I" [] c = "c" -> "C"
      [] c = "n" -> "N" [] c = "p" -> "P" [] c = "v" -> "V"
      [] OTHER -> c

Upper(str) == [i \in 1..Len(str) |-> UpperChar(str[i])]

StartsWith(str, c) == Len(str) >= 1 /\ str[1] = c

\* A plausible slip: the AVPU scale scored as a ladder of four.
news2_consciousness_four_way(score, level_of_consciousness) ==
    IF StartsWith(Upper(level_of_consciousness), "A")
    THEN Put(score, "level_of_consciousness", 0)
    ELSE IF StartsWith(Upper(level_of_consciousness), "V")
    THEN Put(score, "level_of_consciousness", 1)
    ELSE IF StartsWith(Upper(level_of_consciousness), "P")
    THEN Put(score, "level_of_consciousness", 2)
    ELSE Put(score, "level_of_consciousness", 3)

\* Lines 373-378
news2_level_of_consciousness(score, level_of_consciousness) ==
    IF StartsWith(Upper(level_of_consciousness), "A")
    THEN Put(score, "level_of_consciousness", 0)
    ELSE Put(score, "level_of_consciousness", 3)

\* Lines 380-388; temperature in tenths of a degree
news2_temperature(score, temperature) ==
    IF 361 <= temperature /\ temperature <= 380
    THEN Put(score, "temperature", 0)
    ELSE IF (351 <= temperature /\ temperature <= 360)
            \/ (381 <= temperature /\ temperature <= 390)
    THEN Put(score, "temperature", 1)
    ELSE IF temperature <= 350 THEN Put(score, "temperature", 3)
    ELSE Put(score, "temperature", 2)

\* Lines 390-401: the result built from the finished score dict.
news2_result(score) ==
    LET total_score == SumValues(score)
        interpreted == interpret_news2(total_score, score)
    IN  [ individual_scores |-> score,
          total_score |-> total_score,
          risk_band |-> interpreted[1],
          interpretation |-> interpreted[2] ]

\* Lines 308-388: the score dict after every parameter block has run.
news2_scores(a) ==
    LET s1 == news2_respiratory_rate(EmptyDict, a.respiratory_rate)
        s2 == news2_spo2_scale_1(s1, a.SpO2_Scale_1)
        s3 == news2_spo2_scale_2(s2, a.SpO2_Scale_2, a.supplemental_oxygen)
        s4 == news2_age(s3, a.Age)
        s5 == news2_fio2(s4, a.supplemental_oxygen)
        s6 == news2_systolic_bp(s5, a.systolic_bp)
        s7 == news2_heart_rate(s6, a.heart_rate)
        s8 == news2_level_of_consciousness(s7, a.level_of_consciousness)
    IN  news2_temperature(s8, a.temperature)

calculate_news2(a) == news2_result(news2_scores(a))

-----------------------------------------------------------------------------
(* The inputs the calls are made with.  Every ladder gets the values on    *)
(* both sides of each of its thresholds.  A SOFA or NEWS2 call takes one   *)
(* of a few whole snapshots with one parameter group set to any value of   *)
(* its range (the groups are scored independently of one another).         *)

PaO2FiO2Values == {50, 99, 100, 199, 200, 250, 299, 300, 399, 400}

PlateletValues == {-5, 19, 20, 49, 50, 80, 99, 100, 149, 150}

BilirubinValues == {100, 119, 120, 190, 191, 320, 590, 591, 1190, 1191}

MapValues == {64, 65, 68, 69, 70}

SofaMapValues == {65, 69, 70}

DopamineValues == {-100, 0, 300, 500, 501, 800, 1500, 1501}

DobutamineValues == {0, 250}

EpinephrineValues == {-5, 0, 5, 10, 11}

NorepinephrineValues == {0, 5, 10, 11}

GcsValues == {2, 3, 5, 6, 9, 10, 12, 13, 14, 15, 16}

CreatinineValues == {100, 119, 120, 199, 200, 250, 349, 350, 499, 500}

UrineOutputValues == {None} \cup {Some(u) : u \in {0, 199, 200, 499, 500}}

BaselineValues == {None} \cup {Some(b) : b \in {-2, -1, 0, 1, 2, 11, 25}}

\* patient1_sofa of example_usage (lines 411-415), the spec's SOFA scenario
Patient1Sofa ==
    [ pao2_fio2 |-> 250, platelets |-> 80, bilirubin |-> 320, map_mmhg |-> 65,
      gcs |-> 12, creatinine |-> 250, respiratory_support |-> TRUE,
      dopamine_dose |-> 800, dobutamine_dose |-> 0, epinephrine_dose |-> 0,
      norepinephrine_dose |-> 0, urine_output_ml_day |-> None ]

\* The defaults of the sofa_test form (src/app.py lines 351-365)
SofaFormDefaults ==
    [ pao2_fio2 |-> 300, platelets |-> 150, bilirubin |-> 100, map_mmhg |-> 70,
      gcs |-> 15, creatinine |-> 100, respiratory_support |-> FALSE,
      dopamine_dose |-> 0, dobutamine_dose |-> 0, epinephrine_dose |-> 0,
      norepinephrine_dose |-> 0, urine_output_ml_day |-> None ]

\* Snapshots whose six organ systems all sit in the same band 0, 1, 2, 3, 4
SofaBand0 ==
    [ pao2_fio2 |-> 400, platelets |-> 150, bilirubin |-> 100, map_mmhg |-> 70,
      gcs |-> 15, creatinine |-> 100, respiratory_support |-> FALSE,
      dopamine_dose |-> 0, dobutamine_dose |-> 0, epinephrine_dose |-> 0,
      norepinephrine_dose |-> 0, urine_output_ml_day |-> None ]

SofaBand2 ==
    [ pao2_fio2 |-> 200, platelets |-> 50, bilirubin |-> 590, map_mmhg |-> 65,
      gcs |-> 10, creatinine |-> 200, respiratory_support |-> FALSE,
      dopamine_dose |-> 0, dobutamine_dose |-> 250, epinephrine_dose |-> 0,
      norepinephrine_dose |-> 0, urine_output_ml_day |-> Some(500) ]

SofaBand3 ==
    [ pao2_fio2 |-> 100, platelets |-> 20, bilirubin |-> 1190, map_mmhg |-> 65,
      gcs |-> 6, creatinine |-> 350, respiratory_support |-> TRUE,
      dopamine_dose |-> 0, dobutamine_dose |-> 0, epinephrine_dose |-> 10,
      norepinephrine_dose |-> 0, urine_output_ml_day |-> None ]

SofaBand4 ==
    [ pao2_fio2 |-> 50, platelets |-> 19, bilirubin |-> 1191, map_mmhg |-> 64,
      gcs |-> 3, creatinine |-> 100, respiratory_support |-> TRUE,
      dopamine_dose |-> 0, dobutamine_dose |-> 0, epinephrine_dose |-> 0,
      norepinephrine_dose |-> 11, urine_output_ml_day |-> Some(0) ]

SofaBand1 ==
    [ pao2_fio2 |-> 300, platelets |-> 100, bilirubin |-> 120, map_mmhg |-> 69,
      gcs |-> 13, creatinine |-> 120, respiratory_support |-> FALSE,
      dopamine_dose |-> 0, dobutamine_dose |-> 0, epinephrine_dose |-> 0,
      norepinephrine_dose |-> 0, urine_output_ml_day |-> None ]

SofaSnapshots ==
    {Patient1Sofa, SofaFormDefaults, SofaBand0, SofaBand1, SofaBand2,
     SofaBand3, SofaBand4}

SofaVariants(b) ==
    {[b EXCEPT !.pao2_fio2 = p, !.respiratory_support = s] :
         p \in PaO2FiO2Values, s \in BOOLEAN}
    \cup {[b EXCEPT !.platelets = p] : p \in PlateletValues}
    \cup {[b EXCEPT !.bilirubin = x] : x \in BilirubinValues}
    \cup {[b EXCEPT !.gcs = g] : g \in GcsValues}
    \cup {[b EXCEPT !.creatinine = c, !.urine_output_ml_day = u] :
              c \in CreatinineValues, u \in UrineOutputValues}
    \cup {[b EXCEPT !.map_mmhg = m, !.dopamine_dose = d1,
                    !.dobutamine_dose = d2, !.epinephrine_dose = d3,
                    !.norepinephrine_dose = d4] :
              m \in SofaMapValues, d1 \in DopamineValues, d2 \in DobutamineValues,
              d3 \in EpinephrineValues, d4 \in NorepinephrineValues}

\* The arguments of one calculate_total_sofa call
SofaArgs(a, baseline) ==
    [ pao2_fio2 |-> a.pao2_fio2, platelets |-> a.platelets,
      bilirubin |-> a.bilirubin, map_mmhg |-> a.map_mmhg, gcs |-> a.gcs,
      creatinine |-> a.creatinine,
      respiratory_support |-> a.respiratory_support,
      dopamine_dose |-> a.dopamine_dose, dobutamine_dose |-> a.dobutamine_dose,
      epinephrine_dose |-> a.epinephrine_dose,
      norepinephrine_dose |-> a.norepinephrine_dose,
      urine_output_ml_day |-> a.urine_output_ml_day,
      baseline_sofa |-> baseline ]

QsofaRespiratoryRates == {None} \cup {Some(r) : r \in {20, 21, 22, 28}}

QsofaSystolicBps == {None} \cup {Some(b) : b \in {0, 95, 100, 101, 120}}

QsofaGcsValues == {None} \cup {Some(g) : g \in {3, 12, 14, 15}}

QsofaInputs ==
    [ respiratory_rate : QsofaRespiratoryRates, systolic_bp : QsofaSystolicBps,
      gcs : QsofaGcsValues, suspected_infection : BOOLEAN ]

LactateValues == {10, 19, 20, 21, 35}

ShockInputs ==
    [ map_mmhg : MapValues, lactate_mmol_l : LactateValues,
      on_vasopressors : BOOLEAN, adequate_volume_resus : BOOLEAN,
      sepsis_present : BOOLEAN ]

News2RespiratoryRates == {8, 9, 11, 12, 20, 21, 24, 25, 26, 31, 32}

SpO2Scale1Values == {90, 91, 92, 93, 94, 95, 96}

SpO2Scale2Values == {80, 83, 84, 85, 86, 87, 88, 91, 92, 93, 94, 95, 96, 97}

News2SystolicBps == {88, 90, 91, 100, 101, 110, 111, 219, 220}

HeartRates == {40, 41, 50, 51, 90, 91, 110, 111, 130, 131, 135}

Alert == <<"A", "l", "e", "r", "t">>

ConsciousnessLevels ==
    { Alert, <<"a", "l", "e", "r", "t">>, <<"V", "o", "i", "c", "e">>,
      <<"P", "a", "i", "n">>,
      <<"U", "n", "r", "e", "s", "p", "o", "n", "s", "i", "v", "e">> }

Temperatures == {350, 351, 360, 361, 380, 381, 390, 391, 392}

Ages == {39, 40, 65, 66, 79, 80}

\* The vital signs of example_usage's NEWS2 patient (lines 426-429), with
\* the two saturation values and the age its call leaves out
News2Patient ==
    [ respiratory_rate |-> 26, SpO2_Scale_1 |-> 90, SpO2_Scale_2 |-> 90,
      supplemental_oxygen |-> TRUE, systolic_bp |-> 88, heart_rate |-> 135,
      level_of_consciousness |-> Alert, temperature |-> 392, Age |-> 66 ]

\* A snapshot every parameter of which scores 0
News2Well ==
    [ respiratory_rate |-> 16, SpO2_Scale_1 |-> 98, SpO2_Scale_2 |-> 98,
      supplemental_oxygen |-> FALSE, systolic_bp |-> 120, heart_rate |-> 70,
      level_of_consciousness |-> Alert, temperature |-> 370, Age |-> 30 ]

\* A snapshot that scores 4 with no parameter at 3
News2Borderline ==
    [ respiratory_rate |-> 22, SpO2_Scale_1 |-> 98, SpO2_Scale_2 |-> 98,
      supplemental_oxygen |-> FALSE, systolic_bp |-> 105, heart_rate |-> 100,
      level_of_consciousness |-> Alert, temperature |-> 370, Age |-> 30 ]

News2Snapshots == {News2Patient, News2Well, News2Borderline}

News2Groups ==
    {"respiratory_rate", "saturation", "systolic_bp", "heart_rate",
     "level_of_consciousness", "temperature", "Age"}

\* Snapshot b with the parameter group g set to every value of its range
News2Vary(b, g) ==
    CASE g = "respiratory_rate" ->
           {[b EXCEPT !.respiratory_rate = r] : r \in News2RespiratoryRates}
      [] g = "saturation" ->
           {[b EXCEPT !.SpO2_Scale_1 = x, !.SpO2_Scale_2 = y,
                      !.supplemental_oxygen = o] :
                x \in SpO2Scale1Values, y \in SpO2Scale2Values, o \in BOOLEAN}
      [] g = "systolic_bp" ->
           {[b EXCEPT !.systolic_bp = x] : x \in News2SystolicBps}
      [] g = "heart_rate" ->
           {[b EXCEPT !.heart_rate = h] : h \in HeartRates}
      [] g = "level_of_consciousness" ->
           {[b EXCEPT !.level_of_consciousness = l] : l \in ConsciousnessLevels}
      [] g = "temperature" ->
           {[b EXCEPT !.temperature = t] : t \in Temperatures}
      [] g = "Age" -> {[b EXCEPT !.Age = x] : x \in Ages}

-----------------------------------------------------------------------------
(* Callers of the shared instance (src/app.py line 36: one SepsisScoring   *)
(* object serves every request).                                           *)

NumCallers == 2

Callers == 1..NumCallers

IdleFrame == [pc |-> "idle"]

-----------------------------------------------------------------------------
(* The web application's world: the browsers that send requests and the    *)
(* sizes the Patient and SofaTest tables may grow to.                      *)

NumBrowsers == 1

Browsers == 1..NumBrowsers

MaxPatients == 2

MaxTests == 2

\* The primary keys a new Patient / SofaTest row can be given
PatientIds == 1..MaxPatients

TestIds == 1..MaxTests

NoRequest == [route |-> "none"]

-----------------------------------------------------------------------------
(* Spec: invocations made one at a time.  Each Call action is one whole     *)
(* call, from the caller passing the arguments to the value returned; the  *)
(* caller then drops the result (Discard) and may call again.              *)

NoCall == [op |-> "none"]

Init ==
    /\ sofa_criteria = initialize_sofa_criteria
    /\ call = NoCall
    /\ result = None
    /\ frames = [c \in Callers |-> IdleFrame]
    /\ locals = [c \in Callers |-> EmptyDict]
    /\ users = <<>>
    /\ patients = {}
    /\ sofa_tests = <<>>
    /\ sessions = [b \in Browsers |-> None]
    /\ response = NoRequest

CallTotalSofa ==
    /\ call = NoCall
    /\ \E b \in SofaSnapshots : \E a \in SofaVariants(b), baseline \in BaselineValues :
        /\ call' = [op |-> "calculate_total_sofa", args |-> SofaArgs(a, baseline)]
        /\ result' = calculate_total_sofa(SofaArgs(a, baseline))
        /\ UNCHANGED <<sofa_criteria, frames, locals, app_vars>>

CallQsofa ==
    /\ call = NoCall
    /\ \E a \in QsofaInputs :
        /\ call' = [op |-> "calculate_qsofa", args |-> a]
        /\ result' = calculate_qsofa(a.respiratory_rate, a.systolic_bp, a.gcs,
                                     a.suspected_infection)
        /\ UNCHANGED <<sofa_criteria, frames, locals, app_vars>>

CallSepticShock ==
    /\ call = NoCall
    /\ \E a \in ShockInputs :
        /\ call' = [op |-> "assess_septic_shock", args |-> a]
        /\ result' = assess_septic_shock(a.map_mmhg, a.lactate_mmol_l,
                         a.on_vasopressors, a.adequate_volume_resus,
                         a.sepsis_present)
        /\ UNCHANGED <<sofa_criteria, frames, locals, app_vars>>

CallNews2 ==
    /\ call = NoCall
    /\ \E b \in News2Snapshots, g1 \in News2Groups, g2 \in News2Groups :
       \E x \in News2Vary(b, g1) : \E a \in News2Vary(x, g2) :
        /\ call' = [op |-> "calculate_news2", args |-> a]
        /\ result' = calculate_news2(a)
        /\ UNCHANGED <<sofa_criteria, frames, locals, app_vars>>

\* The result is a value with no lifetime beyond the call that made it.
Discard ==
    /\ call # NoCall
    /\ call' = NoCall
    /\ result' = None
    /\ UNCHANGED <<sofa_criteria, frames, locals, app_vars>>

Next ==
    \/ CallTotalSofa
    \/ CallQsofa
    \/ CallSepticShock
    \/ CallNews2
    \/ Discard

Spec == Init /\ [][Next]_vars

-----------------------------------------------------------------------------
(* SpecShared: any number of callers (request threads) invoke the          *)
(* calculators of the one shared instance concurrently.  A call runs in    *)
(* steps, one per statement block of its body, and the steps of different  *)
(* callers interleave freely.  Every dict a calculator builds (score at    *)
(* line 308, scores at 166, criteria at 214 and 256) is a local variable   *)
(* of the call: it lives in the call's own frame.                          *)

\* A plausible slip: the dict kept on the shared instance (self.score = {}),
\* one slot for all callers.
FrameOnInstance(c) == 1

\* The frame that holds caller c's local dict: its own.
FrameOf(c) == c

SharedSofaArgs ==
    {SofaArgs(Patient1Sofa, None), SofaArgs(SofaBand4, Some(25))}

SharedQsofaArgs ==
    { [ respiratory_rate |-> Some(28), systolic_bp |-> Some(95),
        gcs |-> Some(12), suspected_infection |-> TRUE ],
      [ respiratory_rate |-> Some(20), systolic_bp |-> Some(120),
        gcs |-> None, suspected_infection |-> TRUE ] }

SharedShockArgs ==
    { [ map_mmhg |-> 68, lactate_mmol_l |-> 35, on_vasopressors |-> TRUE,
        adequate_volume_resus |-> TRUE, sepsis_present |-> TRUE ],
      [ map_mmhg |-> 64, lactate_mmol_l |-> 20, on_vasopressors |-> TRUE,
        adequate_volume_resus |-> FALSE, sepsis_present |-> TRUE ] }

SharedNews2Args == {News2Patient, News2Well}

ArgsOf(op) ==
    CASE op = "calculate_total_sofa" -> SharedSofaArgs
      [] op = "calculate_qsofa" -> SharedQsofaArgs
      [] op = "assess_septic_shock" -> SharedShockArgs
      [] op = "calculate_news2" -> SharedNews2Args

Calculators ==
    {"calculate_total_sofa", "calculate_qsofa", "assess_septic_shock",
     "calculate_news2"}

\* The first statement block of each calculator
EntryOf(op) ==
    CASE op = "calculate_total_sofa" -> "scores"
      [] op = "calculate_qsofa" -> "check_inputs"
      [] op = "assess_septic_shock" -> "criteria"
      [] op = "calculate_news2" -> "score_init"

Running(c, op, pc) == frames[c].pc = pc /\ frames[c].op = op

\* Caller c moves to block pc with its local dict set to d.
StepTo(c, pc, d) ==
    /\ frames' = [frames EXCEPT ![c].pc = pc]
    /\ locals' = [locals EXCEPT ![FrameOf(c)] = d]
    /\ UNCHANGED <<sofa_criteria, call, result, app_vars>>

\* Caller c returns value: the frame and its locals are gone.
ReturnFrom(c, value) ==
    /\ frames' = [frames EXCEPT ![c] =
                     [pc |-> "returned", op |-> frames[c].op,
                      args |-> frames[c].args, result |-> value]]
    /\ locals' = [locals EXCEPT ![FrameOf(c)] = EmptyDict]
    /\ UNCHANGED <<sofa_criteria, call, result, app_vars>>

Invoke(c) ==
    /\ frames[c].pc = "idle"
    /\ \E op \in Calculators : \E a \in ArgsOf(op) :
           frames' = [frames EXCEPT ![c] =
                         [pc |-> EntryOf(op), op |-> op, args |-> a]]
    /\ UNCHANGED <<sofa_criteria, call, result, locals, app_vars>>

\* calculate_total_sofa, lines 166-175 then 176-188
SofaStep(c) ==
    LET a == frames[c].args
    IN  \/ /\ Running(c, "calculate_total_sofa", "scores")
           /\ StepTo(c, "return", sofa_scores(a))
        \/ /\ Running(c, "calculate_total_sofa", "return")
           /\ ReturnFrom(c, sofa_summary(locals[FrameOf(c)],
                                         Bind(a.baseline_sofa, 0)))

\* calculate_qsofa, lines 208-212, 214-218, 219-229
QsofaStep(c) ==
    LET a == frames[c].args
    IN  \/ /\ Running(c, "calculate_qsofa", "check_inputs")
           /\ qsofa_any_missing(a.respiratory_rate, a.systolic_bp, a.gcs)
           /\ ReturnFrom(c, qsofa_missing_input)
        \/ /\ Running(c, "calculate_qsofa", "check_inputs")
           /\ ~qsofa_any_missing(a.respiratory_rate, a.systolic_bp, a.gcs)
           /\ StepTo(c, "criteria", locals[FrameOf(c)])
        \/ /\ Running(c, "calculate_qsofa", "criteria")
           /\ StepTo(c, "return",
                     qsofa_criteria(a.respiratory_rate[1], a.systolic_bp[1],
                                    a.gcs[1]))
        \/ /\ Running(c, "calculate_qsofa", "return")
           /\ ReturnFrom(c, qsofa_result(locals[FrameOf(c)],
                                         a.suspected_infection))

\* assess_septic_shock, lines 256-261 then 262-269
ShockStep(c) ==
    LET a == frames[c].args
    IN  \/ /\ Running(c, "assess_septic_shock", "criteria")
           /\ StepTo(c, "return",
                     septic_shock_criteria(a.map_mmhg, a.lactate_mmol_l,
                         a.on_vasopressors, a.adequate_volume_resus,
                         a.sepsis_present))
        \/ /\ Running(c, "assess_septic_shock", "return")
           /\ ReturnFrom(c, septic_shock_result(locals[FrameOf(c)]))

\* calculate_news2: line 308, then one block per parameter, then 390-401
News2Step(c) ==
    LET a == frames[c].args
        score == locals[FrameOf(c)]
    IN  \/ /\ Running(c, "calculate_news2", "score_init")
           /\ StepTo(c, "respiratory_rate", EmptyDict)
        \/ /\ Running(c, "calculate_news2", "respiratory_rate")
           /\ StepTo(c, "spo2_scale_1",
                     news2_respiratory_rate(score, a.respiratory_rate))
        \/ /\ Running(c, "calculate_news2", "spo2_scale_1")
           /\ StepTo(c, "spo2_scale_2", news2_spo2_scale_1(score, a.SpO2_Scale_1))
        \/ /\ Running(c, "calculate_news2", "spo2_scale_2")
           /\ StepTo(c, "age",
                     news2_spo2_scale_2(score, a.SpO2_Scale_2,
                                        a.supplemental_oxygen))
        \/ /\ Running(c, "calculate_news2", "age")
           /\ StepTo(c, "fio2", news2_age(score, a.Age))
        \/ /\ Running(c, "calculate_news2", "fio2")
           /\ StepTo(c, "systolic_bp", news2_fio2(score, a.supplemental_oxygen))
        \/ /\ Running(c, "calculate_news2", "systolic_bp")
           /\ StepTo(c, "heart_rate", news2_systolic_bp(score, a.systolic_bp))
        \/ /\ Running(c, "calculate_news2", "heart_rate")
           /\ StepTo(c, "level_of_consciousness",
                     news2_heart_rate(score, a.heart_rate))
        \/ /\ Running(c, "calculate_news2", "level_of_consciousness")
           /\ StepTo(c, "temperature",
                     news2_level_of_consciousness(score,
                                                  a.level_of_consciousness))
        \/ /\ Running(c, "calculate_news2", "temperature")
           /\ StepTo(c, "return", news2_temperature(score, a.temperature))
        \/ /\ Running(c, "calculate_news2", "return")
           /\ ReturnFrom(c, news2_result(score))

\* The caller is done with the value returned.
Finish(c) ==
    /\ frames[c].pc = "returned"
    /\ frames' = [frames EXCEPT ![c] = IdleFrame]
    /\ UNCHANGED <<sofa_criteria, call, result, locals, app_vars>>

NextShared ==
    \E c \in Callers :
        \/ Invoke(c)
        \/ SofaStep(c)
        \/ QsofaStep(c)
        \/ ShockStep(c)
        \/ News2Step(c)
        \/ Finish(c)

SpecShared == Init /\ [][NextShared]_vars

-----------------------------------------------------------------------------
(* SpecAbsent: calls in which required inputs are absent (None).  Python   *)
(* raises TypeError when None is ordered against a number (None >= 400)    *)
(* and AttributeError for None.upper(); None == 0 is simply False and a    *)
(* None flag is falsy.  A call ends either by returning its result or with *)
(* the exception leaving the calculator: no calculator has a try block.    *)

TypeError == [raised |-> "TypeError"]

AttributeError == [raised |-> "AttributeError"]

SofaRequired ==
    {"pao2_fio2", "platelets", "bilirubin", "map_mmhg", "gcs", "creatinine"}

QsofaRequired == {"respiratory_rate", "systolic_bp", "gcs"}

ShockRequired == {"map_mmhg", "lactate_mmol_l"}

News2Required ==
    {"respiratory_rate", "SpO2_Scale_1", "SpO2_Scale_2", "supplemental_oxygen",
     "systolic_bp", "heart_rate", "level_of_consciousness", "temperature",
     "Age"}

\* The arguments b passed with the required inputs named in absent as None
\* and the other required inputs as Some(value).
WithAbsent(b, required, absent) ==
    [f \in DOMAIN b |-> IF f \in absent THEN None
                        ELSE IF f \in required THEN Some(b[f])
                        ELSE b[f]]

\* The values the statements of a body read once the comparisons that raise
\* on None are behind: an absent input that gets here is one the body never
\* orders against a number (it is given the value ifNone, a falsy one).
Present(a, required, ifNone) ==
    [f \in DOMAIN a |-> IF f \in required
                        THEN (IF a[f] = None THEN ifNone ELSE a[f][1])
                        ELSE a[f]]

\* calculate_total_sofa, lines 166-188: the sub-scorers run in the order of
\* the dict literal; each orders its input against a number in its first
\* test (lines 51, 70, 82, 137), calculate_sofa_cns after gcs == 15 (line
\* 126), calculate_sofa_cardiovascular reads map_mmhg only when all four
\* doses are 0 (line 102).
total_sofa_outcome(a) ==
    IF a.pao2_fio2 = None THEN TypeError
    ELSE IF a.platelets = None THEN TypeError
    ELSE IF a.bilirubin = None THEN TypeError
    ELSE IF /\ a.map_mmhg = None
            /\ \A d \in {a.dopamine_dose, a.dobutamine_dose,
                         a.epinephrine_dose, a.norepinephrine_dose} : d = 0
         THEN TypeError
    ELSE IF a.gcs = None THEN TypeError
    ELSE IF a.creatinine = None THEN TypeError
    ELSE calculate_total_sofa(Present(a, SofaRequired, 0))

\* calculate_qsofa tests for None itself (line 208).
qsofa_outcome(a) ==
    calculate_qsofa(a.respiratory_rate, a.systolic_bp, a.gcs,
                    a.suspected_infection)

\* assess_septic_shock, lines 256-269: map_mmhg is read only when
\* on_vasopressors is true (line 258), lactate_mmol_l always (line 259).
septic_shock_outcome(a) ==
    IF a.on_vasopressors /\ a.map_mmhg = None THEN TypeError
    ELSE IF a.lactate_mmol_l = None THEN TypeError
    ELSE LET p == Present(a, ShockRequired, 0)
         IN  assess_septic_shock(p.map_mmhg, p.lactate_mmol_l,
                 p.on_vasopressors, p.adequate_volume_resus, p.sepsis_present)

\* calculate_news2, lines 308-401: the blocks run in source order; a None
\* supplemental_oxygen is falsy at lines 331-335 and 351 and raises nothing.
news2_outcome(a) ==
    IF a.respiratory_rate = None THEN TypeError
    ELSE IF a.SpO2_Scale_1 = None THEN TypeError
    ELSE IF a.SpO2_Scale_2 = None THEN TypeError
    ELSE IF a.Age = None THEN TypeError
    ELSE IF a.systolic_bp = None THEN TypeError
    ELSE IF a.heart_rate = None THEN TypeError
    ELSE IF a.level_of_consciousness = None THEN AttributeError
    ELSE IF a.temperature = None THEN TypeError
    ELSE calculate_news2(Present(a, News2Required, FALSE))

AbsentSets(required) == (SUBSET required) \ {{}}

QsofaComplete ==
    [ respiratory_rate : {22, 28}, systolic_bp : {95, 120}, gcs : {12, 15},
      suspected_infection : BOOLEAN ]

AbsentTotalSofa ==
    /\ call = NoCall
    /\ \E b \in SofaSnapshots, absent \in AbsentSets(SofaRequired) :
        LET a == WithAbsent(SofaArgs(b, None), SofaRequired, absent)
        IN  /\ call' = [op |-> "calculate_total_sofa", args |-> a,
                        absent |-> absent]
            /\ result' = total_sofa_outcome(a)
            /\ UNCHANGED <<sofa_criteria, frames, locals, app_vars>>

AbsentQsofa ==
    /\ call = NoCall
    /\ \E b \in QsofaComplete, absent \in AbsentSets(QsofaRequired) :
        LET a == WithAbsent(b, QsofaRequired, absent)
        IN  /\ call' = [op |-> "calculate_qsofa", args |-> a,
                        absent |-> absent]
            /\ result' = qsofa_outcome(a)
            /\ UNCHANGED <<sofa_criteria, frames, locals, app_vars>>

AbsentSepticShock ==
    /\ call = NoCall
    /\ \E b \in ShockInputs, absent \in AbsentSets(ShockRequired) :
        LET a == WithAbsent(b, ShockRequired, absent)
        IN  /\ call' = [op |-> "assess_septic_shock", args |-> a,
                        absent |-> absent]
            /\ result' = septic_shock_outcome(a)
            /\ UNCHANGED <<sofa_criteria, frames, locals, app_vars>>

AbsentNews2 ==
    /\ call = NoCall
    /\ \E b \in News2Snapshots, absent \in AbsentSets(News2Required) :
        LET a == WithAbsent(b, News2Required, absent)
        IN  /\ call' = [op |-> "calculate_news2", args |-> a,
                        absent |-> absent]
            /\ result' = news2_outcome(a)
            /\ UNCHANGED <<sofa_criteria, frames, locals, app_vars>>

\* The caller is done with the outcome (a returned value or a caught fault).
AbsentDone ==
    /\ call # NoCall
    /\ call' = NoCall
    /\ result' = None
    /\ UNCHANGED <<sofa_criteria, frames, locals, app_vars>>

NextAbsent ==
    \/ AbsentTotalSofa
    \/ AbsentQsofa
    \/ AbsentSepticShock
    \/ AbsentNews2
    \/ AbsentDone

SpecAbsent == Init /\ [][NextAbsent]_vars

-----------------------------------------------------------------------------
(* SpecApp: the request handlers of src/app.py.  Requests are handled one  *)
(* at a time, each as one step: the handler runs from the login check to   *)
(* the commit and the answer.  A row keeps the columns the handlers and    *)
(* the dashboard read (the stored input parameters, names and dates play   *)
(* no part in any decision); a nullable column is None or Some(value).     *)
(* The SofaTest table is kept in timestamp order, oldest first.            *)

engine_vars == <<sofa_criteria, call, result, frames, locals>>

Emails == {"asha@ward.example", "ben@ward.example"}

\* SofaTest.test_type (line 60)
TestTypes == {"qsofa", "sofa", "septic_shock", "news2"}

RegisterPasswords == {"s3cret"}

LoginPasswords == {"s3cret", "guess"}

generate_password_hash(password) == <<"hash", password>>

check_password_hash(pwhash, password) == pwhash = generate_password_hash(password)

\* User.query.filter_by(email=email).first(): the user's id, or None
user_by_email(email) ==
    LET ids == {i \in DOMAIN users : users[i].email = email}
    IN  IF ids = {} THEN None ELSE Some(CHOOSE i \in ids : TRUE)

\* current_user.is_authenticated
is_authenticated(b) == sessions[b] # None

\* A plausible slip: the patient looked up by id alone.
patient_by_id_only(patient_id, b) ==
    {p \in patients : p.id = patient_id}

\* Patient.query.filter_by(id=patient_id, doctor_id=current_user.id): the
\* rows first_or_404() takes the first of, none meaning 404
patient_of_current_user(patient_id, b) ==
    {p \in patients : p.id = patient_id /\ p.doctor_id = sessions[b][1]}

\* patient.sofa_tests: the positions of the patient's rows in the table
tests_of(patient_id) ==
    {i \in DOMAIN sofa_tests : sofa_tests[i].patient_id = patient_id}

\* The answers every protected route shares
LoginRedirect(request) == request @@ [status |-> 302, location |-> "login"]

NotFound(request) == request @@ [status |-> 404]

Answer(request, status, rest) == request @@ [status |-> status] @@ rest

\* Primary keys not in use (a new row gets one of them)
FreePatientIds == PatientIds \ {p.id : p \in patients}

FreeTestIds == TestIds \ {sofa_tests[i].id : i \in DOMAIN sofa_tests}

\* The columns of a SofaTest row that no handler has set
EmptyTest ==
    [ id |-> None, patient_id |-> None, test_type |-> None,
      total_score |-> None, sepsis_criteria_met |-> None, high_risk |-> None,
      septic_shock_present |-> None, interpretation |-> None ]

\* The forms posted (example_usage's patients)
QsofaForm ==
    [ respiratory_rate |-> 28, systolic_bp |-> 95, gcs |-> 12,
      suspected_infection |-> TRUE ]

SofaForm == SofaArgs(Patient1Sofa, Some(0))

ShockForm ==
    [ map_mmhg |-> 68, lactate_mmol_l |-> 35, on_vasopressors |-> TRUE,
      adequate_volume_resus |-> TRUE, sepsis_present |-> TRUE ]

\* well_formed: whether the text of every numeric field parses
News2Forms ==
    [ respiratory_rate : {26}, oxygen_saturation : {90},
      supplemental_oxygen : {TRUE}, systolic_bp : {88}, heart_rate : {135},
      level_of_consciousness : {Alert}, temperature : {392},
      well_formed : BOOLEAN ]

\* The parameters of calculate_news2 (lines 300-303); none has a default
news2_signature ==
    << "respiratory_rate", "SpO2_Scale_1", "SpO2_Scale_2", "supplemental_oxygen",
       "systolic_bp", "heart_rate", "level_of_consciousness", "temperature",
       "Age" >>

\* Python's binding of a call's arguments to parameters without defaults:
\* TypeError for too many positional arguments, an unexpected keyword, a
\* parameter given twice or a parameter not given; else the bound values.
bind_arguments(signature, positional, keywords) ==
    LET names == {signature[i] : i \in DOMAIN signature}
        by_position ==
            {signature[i] : i \in 1..Min(Len(positional), Len(signature))}
        index(n) == CHOOSE i \in DOMAIN signature : signature[i] = n
    IN  IF Len(positional) > Len(signature) THEN TypeError
        ELSE IF \E k \in DOMAIN keywords : k \notin names THEN TypeError
        ELSE IF \E k \in DOMAIN keywords : k \in by_position THEN TypeError
        ELSE IF names # by_position \cup DOMAIN keywords THEN TypeError
        ELSE [n \in names |-> IF n \in by_position THEN positional[index(n)]
                              ELSE keywords[n]]

\* A call of calculate_news2: the body runs only on bound arguments.
calculate_news2_call(positional, keywords) ==
    LET bound == bind_arguments(news2_signature, positional, keywords)
    IN  IF "raised" \in DOMAIN bound THEN bound ELSE calculate_news2(bound)

\* The seven arguments the two NEWS2 routes pass (lines 494-497, 699-702)
news2_route_arguments(form) ==
    << form.respiratory_rate, form.oxygen_saturation, form.supplemental_oxygen,
       form.systolic_bp, form.heart_rate, form.level_of_consciousness,
       form.temperature >>

\* The row news2_test builds from a result (lines 500-513)
news2_row(patient_id, news2) ==
    [ EmptyTest EXCEPT
        !.patient_id = patient_id, !.test_type = "news2",
        !.total_score = Some(news2.total_score),
        !.high_risk = Some(news2.risk_band \in {"Medium", "High"}),
        !.interpretation = None ]

\* A plausible slip: the row added and committed before the score is
\* computed, so that a failing call leaves it stored.
news2_test_row_before_scoring(patient_id, form) ==
    IF ~form.well_formed
    THEN [ stored |-> None,
           flashed |-> "Error: Please ensure all inputs are valid numbers and selections." ]
    ELSE LET news2 == calculate_news2_call(news2_route_arguments(form), EmptyDict)
         IN  IF "raised" \in DOMAIN news2
             THEN [ stored |-> Some([EmptyTest EXCEPT !.patient_id = patient_id,
                                                     !.test_type = "news2"]),
                    flashed |-> "Error calculating NEWS2: " \o news2.raised ]
             ELSE [ stored |-> Some(news2_row(patient_id, news2)), flashed |-> "" ]

\* The try block of news2_test (lines 483-533): the row to store, if the
\* block gets that far, and the message flashed by an except clause.
news2_test_post(patient_id, form) ==
    IF ~form.well_formed
    THEN [ stored |-> None,
           flashed |-> "Error: Please ensure all inputs are valid numbers and selections." ]
    ELSE LET news2 == calculate_news2_call(news2_route_arguments(form), EmptyDict)
         IN  IF "raised" \in DOMAIN news2
             THEN [ stored |-> None,
                    flashed |-> "Error calculating NEWS2: " \o news2.raised ]
             ELSE [ stored |-> Some(news2_row(patient_id, news2)), flashed |-> "" ]

\* "High" in (interpretation or "") on a news2 row: the row's interpretation
\* is result.get('recommended_response') (line 506), a key no result has,
\* so the text searched is always the empty one
contains_High(interpretation) == FALSE

\* The dashboard's news2_risk of one patient (lines 223-234)
dashboard_news2_risk(patient_id) ==
    LET rows == {i \in tests_of(patient_id) :
                     sofa_tests[i].test_type = "news2"}
    IN  IF rows = {} THEN None
        ELSE LET latest_news2 == sofa_tests[CHOOSE i \in rows :
                                               \A j \in rows : j <= i]
             IN  IF latest_news2.high_risk = Some(TRUE)
                 THEN (IF contains_High(latest_news2.interpretation)
                       THEN Some("High") ELSE Some("Medium"))
                 ELSE Some("Low")

\* The dashboard's sepsis_alerts count of some rows (lines 208-217)
sepsis_alerts_of(rows) ==
    Cardinality({i \in rows :
        LET test == sofa_tests[i]
        IN  \/ test.test_type = "sofa" /\ test.sepsis_criteria_met = Some(TRUE)
            \/ test.test_type = "qsofa" /\ test.high_risk = Some(TRUE)
            \/ test.test_type = "septic_shock"
                   /\ test.septic_shock_present = Some(TRUE)
            \/ test.test_type = "news2" /\ test.high_risk = Some(TRUE)})

\* A plausible slip: delete_patient without the delete of the tests.
tests_kept_on_delete(patient_id) == sofa_tests

\* SofaTest.query.filter_by(patient_id=patient_id).delete() (line 544): the
\* table without the patient's rows
tests_without_patient(patient_id) ==
    LET Other(test) == test.patient_id # patient_id
    IN  SelectSeq(sofa_tests, Other)

\* db.session.delete(sofa_test): the table without the row test_id
tests_without(test_id) ==
    LET Other(test) == test.id # test_id
    IN  SelectSeq(sofa_tests, Other)

\* POST /register (lines 158-182)
Register(b) ==
    \E email \in Emails, password \in RegisterPasswords :
        LET request == [route |-> "register", browser |-> b, email |-> email]
        IN  /\ IF user_by_email(email) # None
               THEN /\ response' = Answer(request, 200,
                                      [flashed |-> "Email already registered."])
                    /\ UNCHANGED users
               ELSE /\ users' = Append(users,
                          [ email |-> email,
                            password_hash |-> generate_password_hash(password) ])
                    /\ response' = Answer(request, 302, [location |-> "login"])
            /\ UNCHANGED <<patients, sofa_tests, sessions, engine_vars>>

\* POST /login (lines 141-156)
Login(b) ==
    \E email \in Emails, password \in LoginPasswords :
        LET request == [route |-> "login", browser |-> b, email |-> email]
            user == user_by_email(email)
        IN  /\ IF user # None
                  /\ check_password_hash(users[user[1]].password_hash, password)
               THEN /\ sessions' = [sessions EXCEPT ![b] = user]
                    /\ response' = Answer(request, 302,
                                          [location |-> "dashboard"])
               ELSE /\ response' = Answer(request, 200,
                                      [flashed |-> "Invalid email or password."])
                    /\ UNCHANGED sessions
            /\ UNCHANGED <<users, patients, sofa_tests, engine_vars>>

\* GET /logout (lines 184-189)
Logout(b) ==
    LET request == [route |-> "logout", browser |-> b]
    IN  /\ IF ~is_authenticated(b)
           THEN /\ response' = LoginRedirect(request)
                /\ UNCHANGED sessions
           ELSE /\ sessions' = [sessions EXCEPT ![b] = None]
                /\ response' = Answer(request, 302, [location |-> "home"])
        /\ UNCHANGED <<users, patients, sofa_tests, engine_vars>>

\* GET /dashboard (lines 191-242)
Dashboard(b) ==
    LET request == [route |-> "dashboard", browser |-> b]
    IN  /\ IF ~is_authenticated(b)
           THEN response' = LoginRedirect(request)
           ELSE LET own == {p \in patients : p.doctor_id = sessions[b][1]}
                    rows == UNION {tests_of(p.id) : p \in own}
                IN  response' = Answer(request, 200,
                        [ patient_data |->
                              {[ patient |-> p,
                                 news2_risk |-> dashboard_news2_risk(p.id) ] :
                                   p \in own},
                          total_tests |-> Cardinality(rows),
                          sepsis_alerts |-> sepsis_alerts_of(rows) ])
        /\ UNCHANGED <<users, patients, sofa_tests, sessions, engine_vars>>

\* POST /patient/new (lines 245-266).  A form that lacks a field makes the
\* commit fail on a NOT NULL column; the handler has no except clause.
NewPatient(b) ==
    \E complete \in BOOLEAN :
        LET request == [route |-> "new_patient", browser |-> b]
        IN  /\ IF ~is_authenticated(b)
               THEN /\ response' = LoginRedirect(request)
                    /\ UNCHANGED patients
               ELSE IF ~complete
               THEN /\ response' = Answer(request, 500,
                                          [raised |-> "IntegrityError"])
                    /\ UNCHANGED patients
               ELSE \E id \in FreePatientIds :
                    /\ patients' = patients \cup
                           {[id |-> id, doctor_id |-> sessions[b][1]]}
                    /\ response' = Answer(request, 302,
                                          [location |-> "dashboard"])
            /\ UNCHANGED <<users, sofa_tests, sessions, engine_vars>>

\* GET /patient/<patient_id> (lines 268-273)
PatientDetail(b) ==
    \E patient_id \in PatientIds :
        LET request == [ route |-> "patient_detail", browser |-> b,
                         patient_id |-> patient_id ]
        IN  /\ IF ~is_authenticated(b)
               THEN response' = LoginRedirect(request)
               ELSE IF patient_of_current_user(patient_id, b) = {}
               THEN response' = NotFound(request)
               ELSE response' = Answer(request, 200,
                        [ patient |-> CHOOSE p \in patient_of_current_user(
                                                       patient_id, b) : TRUE,
                          sofa_tests |-> {sofa_tests[i] :
                                              i \in tests_of(patient_id)} ])
            /\ UNCHANGED <<users, patients, sofa_tests, sessions, engine_vars>>

\* GET /api/patient/<patient_id>/sofa-tests (lines 564-579)
PatientSofaTestsApi(b) ==
    \E patient_id \in PatientIds :
        LET request == [ route |-> "patient_sofa_tests_api", browser |-> b,
                         patient_id |-> patient_id ]
        IN  /\ IF ~is_authenticated(b)
               THEN response' = LoginRedirect(request)
               ELSE IF patient_of_current_user(patient_id, b) = {}
               THEN response' = NotFound(request)
               ELSE response' = Answer(request, 200,
                        [ patient |-> CHOOSE p \in patient_of_current_user(
                                                       patient_id, b) : TRUE,
                          sofa_tests |-> {sofa_tests[i] :
                                              i \in tests_of(patient_id)} ])
            /\ UNCHANGED <<users, patients, sofa_tests, sessions, engine_vars>>

\* POST /patient/<patient_id>/test/new (lines 275-293): the chooser of the
\* test form; it stores nothing
NewSofaTest(b) ==
    \E patient_id \in PatientIds, test_type \in TestTypes \cup {""} :
        LET request == [ route |-> "new_sofa_test", browser |-> b,
                         patient_id |-> patient_id ]
        IN  /\ IF ~is_authenticated(b)
               THEN response' = LoginRedirect(request)
               ELSE IF patient_of_current_user(patient_id, b) = {}
               THEN response' = NotFound(request)
               ELSE IF test_type \in TestTypes
               THEN response' = Answer(request, 302,
                                       [location |-> test_type \o "_test"])
               ELSE response' = Answer(request, 200,
                                       [page |-> "new_sofa_test.html"])
            /\ UNCHANGED <<users, patients, sofa_tests, sessions, engine_vars>>

\* POST /patient/<patient_id>/test/qsofa (lines 295-341); the table is bounded
QsofaTest(b) ==
    \E patient_id \in PatientIds :
        LET request == [ route |-> "qsofa_test", browser |-> b,
                         patient_id |-> patient_id ]
            qsofa == calculate_qsofa(Some(QsofaForm.respiratory_rate),
                         Some(QsofaForm.systolic_bp), Some(QsofaForm.gcs),
                         QsofaForm.suspected_infection)
        IN  /\ IF ~is_authenticated(b)
               THEN /\ response' = LoginRedirect(request)
                    /\ UNCHANGED sofa_tests
               ELSE IF patient_of_current_user(patient_id, b) = {}
               THEN /\ response' = NotFound(request)
                    /\ UNCHANGED sofa_tests
               ELSE /\ Len(sofa_tests) < MaxTests
                    /\ \E id \in FreeTestIds :
                        /\ sofa_tests' = Append(sofa_tests,
                               [ EmptyTest EXCEPT
                                   !.id = id, !.patient_id = patient_id,
                                   !.test_type = "qsofa",
                                   !.total_score = Some(qsofa.qsofa_score),
                                   !.high_risk =
                                       Some(qsofa.high_risk_for_poor_outcomes),
                                   !.interpretation = Some(qsofa.interpretation) ])
                        /\ response' = Answer(request, 302,
                                           [ location |-> "patient_detail",
                                             test_id |-> id ])
            /\ UNCHANGED <<users, patients, sessions, engine_vars>>

\* POST /patient/<patient_id>/test/sofa (lines 343-423)
SofaTest(b) ==
    \E patient_id \in PatientIds :
        LET request == [ route |-> "sofa_test", browser |-> b,
                         patient_id |-> patient_id ]
            sofa == calculate_total_sofa(SofaForm)
        IN  /\ IF ~is_authenticated(b)
               THEN /\ response' = LoginRedirect(request)
                    /\ UNCHANGED sofa_tests
               ELSE IF patient_of_current_user(patient_id, b) = {}
               THEN /\ response' = NotFound(request)
                    /\ UNCHANGED sofa_tests
               ELSE /\ Len(sofa_tests) < MaxTests
                    /\ \E id \in FreeTestIds :
                        /\ sofa_tests' = Append(sofa_tests,
                               [ EmptyTest EXCEPT
                                   !.id = id, !.patient_id = patient_id,
                                   !.test_type = "sofa",
                                   !.total_score = Some(sofa.total_sofa),
                                   !.sepsis_criteria_met =
                                       Some(sofa.sepsis_criteria_met),
                                   !.interpretation = Some(sofa.interpretation) ])
                        /\ response' = Answer(request, 302,
                                           [ location |-> "patient_detail",
                                             test_id |-> id ])
            /\ UNCHANGED <<users, patients, sessions, engine_vars>>

\* POST /patient/<patient_id>/test/septic-shock (lines 425-473)
SepticShockTest(b) ==
    \E patient_id \in PatientIds :
        LET request == [ route |-> "septic_shock_test", browser |-> b,
                         patient_id |-> patient_id ]
            shock == assess_septic_shock(ShockForm.map_mmhg,
                         ShockForm.lactate_mmol_l, ShockForm.on_vasopressors,
                         ShockForm.adequate_volume_resus, ShockForm.sepsis_present)
        IN  /\ IF ~is_authenticated(b)
               THEN /\ response' = LoginRedirect(request)
                    /\ UNCHANGED sofa_tests
               ELSE IF patient_of_current_user(patient_id, b) = {}
               THEN /\ response' = NotFound(request)
                    /\ UNCHANGED sofa_tests
               ELSE /\ Len(sofa_tests) < MaxTests
                    /\ \E id \in FreeTestIds :
                        /\ sofa_tests' = Append(sofa_tests,
                               [ EmptyTest EXCEPT
                                   !.id = id, !.patient_id = patient_id,
                                   !.test_type = "septic_shock",
                                   !.septic_shock_present =
                                       Some(shock.septic_shock_present),
                                   !.interpretation = Some(shock.interpretation) ])
                        /\ response' = Answer(request, 302,
                                           [ location |-> "patient_detail",
                                             test_id |-> id ])
            /\ UNCHANGED <<users, patients, sessions, engine_vars>>

\* POST /patient/<patient_id>/test/news2 (lines 477-536)
News2Test(b) ==
    \E patient_id \in PatientIds, form \in News2Forms :
        LET request == [ route |-> "news2_test", browser |-> b,
                         patient_id |-> patient_id,
                         well_formed |-> form.well_formed ]
            post == news2_test_post(patient_id, form)
        IN  /\ IF ~is_authenticated(b)
               THEN /\ response' = LoginRedirect(request)
                    /\ UNCHANGED sofa_tests
               ELSE IF patient_of_current_user(patient_id, b) = {}
               THEN /\ response' = NotFound(request)
                    /\ UNCHANGED sofa_tests
               ELSE IF post.stored = None
               THEN /\ response' = Answer(request, 200,
                                      [ page |-> "news2_test_form.html",
                                        flashed |-> post.flashed ])
                    /\ UNCHANGED sofa_tests
               ELSE /\ Len(sofa_tests) < MaxTests
                    /\ \E id \in FreeTestIds :
                        /\ sofa_tests' = Append(sofa_tests,
                                             [post.stored[1] EXCEPT !.id = id])
                        /\ response' = Answer(request, 200,
                                           [ page |-> "news2_result.html",
                                             flashed |-> post.flashed ])
            /\ UNCHANGED <<users, patients, sessions, engine_vars>>

\* POST /calculator/news2_calculator (lines 685-707)
News2Calculator(b) ==
    \E form \in News2Forms :
        LET request == [ route |-> "news2_calculator", browser |-> b,
                         well_formed |-> form.well_formed ]
            news2 == calculate_news2_call(news2_route_arguments(form), EmptyDict)
        IN  /\ IF ~is_authenticated(b)
               THEN response' = LoginRedirect(request)
               ELSE IF ~form.well_formed
               THEN response' = Answer(request, 200,
                        [ result |-> None,
                          flashed |-> "Error calculating NEWS2: ValueError" ])
               ELSE IF "raised" \in DOMAIN news2
               THEN response' = Answer(request, 200,
                        [ result |-> None,
                          flashed |-> "Error calculating NEWS2: " \o news2.raised ])
               ELSE response' = Answer(request, 200,
                        [result |-> Some(news2), flashed |-> ""])
            /\ UNCHANGED <<users, patients, sofa_tests, sessions, engine_vars>>

\* The NEWS2 call of example_usage (src/clinical_scoring.py lines 426-429):
\* keyword arguments, one of them oxygen_saturation; nothing catches.
ExampleUsage ==
    LET keywords ==
            [ respiratory_rate |-> 26, oxygen_saturation |-> 90,
              supplemental_oxygen |-> TRUE, systolic_bp |-> 88,
              heart_rate |-> 135, level_of_consciousness |-> Alert,
              temperature |-> 392 ]
    IN  /\ response' = [ route |-> "example_usage",
                         outcome |-> calculate_news2_call(<<>>, keywords) ]
        /\ UNCHANGED <<users, patients, sofa_tests, sessions, engine_vars>>

\* POST /patient/<patient_id>/delete (lines 538-551)
DeletePatient(b) ==
    \E patient_id \in PatientIds :
        LET request == [ route |-> "delete_patient", browser |-> b,
                         patient_id |-> patient_id ]
        IN  /\ IF ~is_authenticated(b)
               THEN /\ response' = LoginRedirect(request)
                    /\ UNCHANGED <<patients, sofa_tests>>
               ELSE IF patient_of_current_user(patient_id, b) = {}
               THEN /\ response' = NotFound(request)
                    /\ UNCHANGED <<patients, sofa_tests>>
               ELSE /\ sofa_tests' = tests_without_patient(patient_id)
                    /\ patients' = patients \ patient_of_current_user(patient_id, b)
                    /\ response' = Answer(request, 302,
                                          [location |-> "dashboard"])
            /\ UNCHANGED <<users, sessions, engine_vars>>

\* POST /patient/<patient_id>/test/<test_id>/delete (lines 553-562)
DeleteSofaTest(b) ==
    \E patient_id \in PatientIds, test_id \in TestIds :
        LET request == [ route |-> "delete_sofa_test", browser |-> b,
                         patient_id |-> patient_id, test_id |-> test_id ]
            found == {i \in tests_of(patient_id) : sofa_tests[i].id = test_id}
        IN  /\ IF ~is_authenticated(b)
               THEN /\ response' = LoginRedirect(request)
                    /\ UNCHANGED sofa_tests
               ELSE IF patient_of_current_user(patient_id, b) = {}
               THEN /\ response' = NotFound(request)
                    /\ UNCHANGED sofa_tests
               ELSE IF found = {}
               THEN /\ response' = NotFound(request)
                    /\ UNCHANGED sofa_tests
               ELSE /\ sofa_tests' = tests_without(test_id)
                    /\ response' = Answer(request, 302,
                                          [location |-> "patient_detail"])
            /\ UNCHANGED <<users, patients, sessions, engine_vars>>

NextApp ==
    \/ \E b \in Browsers :
        \/ Register(b)
        \/ Login(b)
        \/ Logout(b)
        \/ Dashboard(b)
        \/ NewPatient(b)
        \/ PatientDetail(b)
        \/ PatientSofaTestsApi(b)
        \/ NewSofaTest(b)
        \/ QsofaTest(b)
        \/ SofaTest(b)
        \/ SepticShockTest(b)
        \/ News2Test(b)
        \/ News2Calculator(b)
        \/ DeletePatient(b)
        \/ DeleteSofaTest(b)
    \/ ExampleUsage

SpecApp == Init /\ [][NextApp]_vars

-----------------------------------------------------------------------------
(* Properties of calculate_total_sofa *)

IsSofaCall == call.op = "calculate_total_sofa"

SofaKeys ==
    {"respiration", "coagulation", "liver", "cardiovascular", "cns", "renal"}

\* C1: every calculate_total_sofa result has exactly the six sub-scores,
\* each an integer in 0..4, and total_sofa is their sum, hence in 0..24.
C1_SofaScoresBounded ==
    IsSofaCall =>
        LET sc == result.individual_scores
        IN  /\ DOMAIN sc = SofaKeys
            /\ \A k \in SofaKeys : sc[k] \in 0..4
            /\ result.total_sofa = sc.respiration + sc.coagulation + sc.liver
                                   + sc.cardiovascular + sc.cns + sc.renal
            /\ result.total_sofa \in 0..24

\* C1 witness: a call with urine output supplied and respiratory support on
\* whose six sub-scores are all 4 (total 24).
C1_Witness ==
    /\ IsSofaCall
    /\ call.args.urine_output_ml_day # None
    /\ call.args.respiratory_support
    /\ \A k \in SofaKeys : result.individual_scores[k] = 4
    /\ result.total_sofa = 24

\* C2: delta_sofa = total_sofa - baseline_sofa, baseline_sofa is the
\* caller's baseline (0 when none is given), and sepsis_criteria_met is
\* true iff delta_sofa >= 2, for every baseline.
C2_SofaDelta ==
    IsSofaCall =>
        /\ result.baseline_sofa =
               (IF call.args.baseline_sofa = None THEN 0
                ELSE call.args.baseline_sofa[1])
        /\ result.delta_sofa = result.total_sofa - result.baseline_sofa
        /\ result.sepsis_criteria_met <=> (result.delta_sofa >= 2)

\* C2 witness: a baseline larger than a total of at least 2, so the delta
\* is negative and the criteria are not met.
C2_Witness ==
    /\ IsSofaCall
    /\ call.args.baseline_sofa = Some(25)
    /\ result.total_sofa >= 2
    /\ result.delta_sofa < 0
    /\ ~result.sepsis_criteria_met

\* A second C2 case: a negative baseline lifts a total of 0 to a delta of 2.
C2_NegativeBaselineReached ==
    /\ IsSofaCall
    /\ call.args.baseline_sofa = Some(-2)
    /\ result.total_sofa = 0
    /\ result.sepsis_criteria_met

IsScenarioSofaCall ==
    /\ IsSofaCall
    /\ call.args = SofaArgs(Patient1Sofa, Some(0))

\* C3 as stated: for the scenario (PaO2/FiO2 250, platelets 80, bilirubin
\* 3.2, MAP 65, GCS 12, creatinine 2.5, support, dopamine 8, baseline 0) all
\* six sub-scores are 2, total and delta are 12 and the criteria are met.
C3_ScenarioAsStated ==
    IsScenarioSofaCall =>
        /\ result.individual_scores =
               [ respiration |-> 2, coagulation |-> 2, liver |-> 2,
                 cardiovascular |-> 2, cns |-> 2, renal |-> 2 ]
        /\ result.total_sofa = 12
        /\ result.delta_sofa = 12
        /\ result.sepsis_criteria_met

\* C3 amended: for the scenario the cardiovascular sub-score is 3 (dopamine
\* 8 lies in (5,15], not in (0,5]), the other five are 2, total and delta
\* are 13 and the criteria are met.
C3_ScenarioAmended ==
    IsScenarioSofaCall =>
        /\ result.individual_scores =
               [ respiration |-> 2, coagulation |-> 2, liver |-> 2,
                 cardiovascular |-> 3, cns |-> 2, renal |-> 2 ]
        /\ result.total_sofa = 13
        /\ result.delta_sofa = 13
        /\ result.sepsis_criteria_met

\* C3 witness: the scenario call has been made and has returned.
C3_Witness ==
    /\ IsScenarioSofaCall
    /\ result.individual_scores.cardiovascular = 3
    /\ result.estimated_mortality_risk_percent = 75

-----------------------------------------------------------------------------
(* Properties of calculate_qsofa *)

IsQsofaCall == call.op = "calculate_qsofa"

QsofaInputMissing ==
    \/ call.args.respiratory_rate = None
    \/ call.args.systolic_bp = None
    \/ call.args.gcs = None

\* C4: with all three inputs present the criteria are RR >= 22, GCS < 15 and
\* SBP <= 100, qsofa_score is the number of true criteria (0..3), high risk
\* iff the score is >= 2; RR 28, SBP 95, GCS 12 gives all three, 3 and high.
C4_QsofaCriteria ==
    (IsQsofaCall /\ ~QsofaInputMissing) =>
        LET rr == call.args.respiratory_rate[1]
            sbp == call.args.systolic_bp[1]
            gcs == call.args.gcs[1]
            c == result.criteria_met
        IN  /\ c.respiratory_rate_22_or_higher <=> (rr >= 22)
            /\ c.altered_mentation <=> (gcs < 15)
            /\ c.systolic_bp_100_or_lower <=> (sbp <= 100)
            /\ result.qsofa_score =
                   (IF rr >= 22 THEN 1 ELSE 0) + (IF gcs < 15 THEN 1 ELSE 0)
                   + (IF sbp <= 100 THEN 1 ELSE 0)
            /\ result.qsofa_score \in 0..3
            /\ result.high_risk_for_poor_outcomes <=> (result.qsofa_score >= 2)
            /\ (rr = 28 /\ sbp = 95 /\ gcs = 12) =>
                   /\ c.respiratory_rate_22_or_higher
                   /\ c.altered_mentation
                   /\ c.systolic_bp_100_or_lower
                   /\ result.qsofa_score = 3
                   /\ result.high_risk_for_poor_outcomes

\* C4 witness: the scenario RR 28, SBP 95, GCS 12 scored 3, high risk.
C4_Witness ==
    /\ IsQsofaCall
    /\ call.args.respiratory_rate = Some(28)
    /\ call.args.systolic_bp = Some(95)
    /\ call.args.gcs = Some(12)
    /\ result.qsofa_score = 3
    /\ result.high_risk_for_poor_outcomes

\* A second C4 case: the SBP criterion holds at exactly 100 and the score of 1
\* is not high risk.
C4_BoundaryReached ==
    /\ IsQsofaCall
    /\ call.args.respiratory_rate = Some(21)
    /\ call.args.systolic_bp = Some(100)
    /\ call.args.gcs = Some(15)
    /\ result.qsofa_score = 1
    /\ ~result.high_risk_for_poor_outcomes

\* C5: if any of the three inputs is None the result is exactly
\* {qsofa_score: None, error: ...} (no criteria, flag, interpretation or
\* recommendation), whatever the other inputs; if all three are present the
\* result carries no error and a numeric score.
C5_QsofaInsufficientInput ==
    IsQsofaCall =>
        IF QsofaInputMissing
        THEN /\ DOMAIN result = {"qsofa_score", "error"}
             /\ result.qsofa_score = None
        ELSE /\ "error" \notin DOMAIN result
             /\ "criteria_met" \in DOMAIN result
             /\ result.qsofa_score \in 0..3

\* C5 witness: only GCS is missing, suspected_infection is false, and the
\* insufficient-input result came back.
C5_Witness ==
    /\ IsQsofaCall
    /\ call.args.respiratory_rate = Some(28)
    /\ call.args.systolic_bp = Some(95)
    /\ call.args.gcs = None
    /\ ~call.args.suspected_infection
    /\ DOMAIN result = {"qsofa_score", "error"}

-----------------------------------------------------------------------------
(* Properties of assess_septic_shock *)

IsShockCall == call.op = "assess_septic_shock"

\* C6: the four reported criteria are sepsis_present, on_vasopressors and
\* MAP >= 65, lactate > 2.0 (strictly) and adequate_volume_resus; shock is
\* present iff all four are true, and the mortality risk is ">40%" exactly
\* then; MAP 68, lactate 3.5, all flags true gives shock present.
C6_SepticShockConjunction ==
    IsShockCall =>
        LET a == call.args
            c == result.criteria
        IN  /\ DOMAIN c = {"sepsis_present",
                           "persistent_hypotension_on_vasopressors",
                           "lactate_greater_than_2",
                           "adequate_volume_resuscitation"}
            /\ c.sepsis_present <=> a.sepsis_present
            /\ c.persistent_hypotension_on_vasopressors
                   <=> (a.on_vasopressors /\ a.map_mmhg >= 65)
            /\ c.lactate_greater_than_2 <=> (a.lactate_mmol_l > 20)
            /\ c.adequate_volume_resuscitation <=> a.adequate_volume_resus
            /\ result.septic_shock_present
                   <=> (/\ c.sepsis_present
                        /\ c.persistent_hypotension_on_vasopressors
                        /\ c.lactate_greater_than_2
                        /\ c.adequate_volume_resuscitation)
            /\ (result.estimated_mortality_risk = ">40%")
                   <=> result.septic_shock_present
            /\ (/\ a.map_mmhg = 68 /\ a.lactate_mmol_l = 35
                /\ a.on_vasopressors /\ a.adequate_volume_resus
                /\ a.sepsis_present)
                   => (/\ result.septic_shock_present
                       /\ result.estimated_mortality_risk = ">40%")

\* C6 witness: the scenario MAP 68, lactate 3.5, all three flags true.
C6_Witness ==
    /\ IsShockCall
    /\ call.args.map_mmhg = 68
    /\ call.args.lactate_mmol_l = 35
    /\ call.args.on_vasopressors
    /\ call.args.adequate_volume_resus
    /\ call.args.sepsis_present
    /\ result.septic_shock_present

\* A second C6 case: lactate of exactly 2.0 alone makes shock absent.
C6_LactateBoundaryReached ==
    /\ IsShockCall
    /\ call.args.map_mmhg = 65
    /\ call.args.lactate_mmol_l = 20
    /\ call.args.on_vasopressors
    /\ call.args.adequate_volume_resus
    /\ call.args.sepsis_present
    /\ ~result.septic_shock_present

-----------------------------------------------------------------------------
(* Properties of calculate_news2 *)

IsNews2Call == call.op = "calculate_news2"

HasScoreOf3(scores) == \E k \in DOMAIN scores : scores[k] = 3

News2Bands == {"High", "Medium", "Low-Medium", "Low"}

News2ResponseOf(band) ==
    CASE band = "High" ->
           "EMERGENCY RESPONSE: Clinical urgency high. Immediate senior clinical review and continuous monitoring required."
      [] band = "Medium" ->
           "URGENT REVIEW: Review by a clinician/doctor competent in acute illness. Monitor every hour."
      [] band = "Low-Medium" ->
           "ROUTINE MONITORING:  Urgent Ward-based care. Monitor every 4-12 hours."
      [] band = "Low" ->
           "ROUTINE MONITORING:  Ward-based care. Monitor every 4-12 hours."

\* C7: the risk band is decided by total_score and by whether any entry of
\* individual_scores is 3: High iff total >= 7, Medium iff 5 <= total < 7,
\* Low-Medium iff total < 5 with an entry of 3, Low otherwise; the band is
\* always one of the four and the text returned is that band's fixed text.
C7_News2RiskBand ==
    IsNews2Call =>
        LET t == result.total_score
            has3 == HasScoreOf3(result.individual_scores)
        IN  /\ result.risk_band \in News2Bands
            /\ (result.risk_band = "High") <=> (t >= 7)
            /\ (result.risk_band = "Medium") <=> (5 <= t /\ t < 7)
            /\ (result.risk_band = "Low-Medium") <=> (t < 5 /\ has3)
            /\ (result.risk_band = "Low") <=> (t < 5 /\ ~has3)
            /\ result.interpretation = News2ResponseOf(result.risk_band)

\* C7 witness: a total below 5 with one parameter at 3 was banded Low-Medium.
C7_Witness ==
    /\ IsNews2Call
    /\ result.total_score = 4
    /\ HasScoreOf3(result.individual_scores)
    /\ result.risk_band = "Low-Medium"

\* Further C7 cases: each boundary total reached with its band.
C7_HighAt7Reached ==
    IsNews2Call /\ result.total_score = 7 /\ result.risk_band = "High"

C7_MediumReached ==
    /\ IsNews2Call
    /\ result.total_score = 6
    /\ ~HasScoreOf3(result.individual_scores)
    /\ result.risk_band = "Medium"

C7_LowReached ==
    IsNews2Call /\ result.total_score = 4 /\ result.risk_band = "Low"

SaturationKeys == {"oxygen_saturation", "SpO2_Scale_1", "SpO2_Scale_2"}

\* What the saturation entries of a score dict add to its total
SaturationContribution(scores) ==
    SumOver(scores, SaturationKeys \cap DOMAIN scores)

\* total_score of the call's arguments with SpO2_Scale_1 given as v
TotalWithScale1(v) ==
    calculate_news2([call.args EXCEPT !.SpO2_Scale_1 = v]).total_score

\* total_score of the call's arguments with SpO2_Scale_2 given as v
TotalWithScale2(v) ==
    calculate_news2([call.args EXCEPT !.SpO2_Scale_2 = v]).total_score

\* C8: saturation is scored on one scale only: the saturation entries add
\* at most 3 to total_score, and the total does not change with the value
\* given for one of the two scales (the one not in use).
C8_OneSaturationScale ==
    IsNews2Call =>
        /\ SaturationContribution(result.individual_scores) \in 0..3
        /\ \/ \A v \in SpO2Scale1Values : TotalWithScale1(v) = result.total_score
           \/ \A v \in SpO2Scale2Values : TotalWithScale2(v) = result.total_score

\* The parameters scored by a ladder, each with the keys that can hold its
\* score
News2LadderKeys ==
    { {"respiratory_rate"}, {"oxygen_saturation", "SpO2_Scale_1"},
      {"oxygen_saturation", "SpO2_Scale_2"}, {"systolic_bp"}, {"heart_rate"},
      {"temperature"}, {"Age"} }

\* C9: every ladder resolves its input to a band: individual_scores holds a
\* score (0..3) for respiratory rate, saturation, systolic BP, heart rate,
\* temperature and age, whatever the input, and total_score includes it.
C9_News2LaddersTotal ==
    IsNews2Call =>
        /\ \A keys \in News2LadderKeys :
               \E k \in keys : /\ k \in DOMAIN result.individual_scores
                               /\ result.individual_scores[k] \in 0..3
        /\ result.total_score = SumValues(result.individual_scores)

\* The failing case of C9: a respiratory rate between 25 and 31 was scored and
\* the result holds no respiratory_rate entry.
C9_UnscoredRespiratoryRateReached ==
    /\ IsNews2Call
    /\ call.args.respiratory_rate \in 25..31
    /\ "respiratory_rate" \notin DOMAIN result.individual_scores

-----------------------------------------------------------------------------
(* Properties of the shared instance *)

\* What a calculator returns for arguments a when nothing else runs
ResultInIsolation(op, a) ==
    CASE op = "calculate_total_sofa" -> calculate_total_sofa(a)
      [] op = "calculate_qsofa" ->
           calculate_qsofa(a.respiratory_rate, a.systolic_bp, a.gcs,
                           a.suspected_infection)
      [] op = "assess_septic_shock" ->
           assess_septic_shock(a.map_mmhg, a.lactate_mmol_l, a.on_vasopressors,
                               a.adequate_volume_resus, a.sepsis_present)
      [] op = "calculate_news2" -> calculate_news2(a)

Returned(c) == frames[c].pc = "returned"

\* C10: under any interleaving of calls by concurrent callers on the shared
\* instance, every call returns what its arguments give in isolation (so
\* equal calls return equal results, whatever ran in between), a caller
\* with no call in progress holds no state of an earlier call, and
\* sofa_criteria keeps the value the constructor gave it.
C10_CalculatorsPure ==
    /\ sofa_criteria = initialize_sofa_criteria
    /\ \A c \in Callers :
           frames[c].pc \in {"idle", "returned"} => locals[c] = EmptyDict
    /\ \A c \in Callers :
           Returned(c) =>
               frames[c].result = ResultInIsolation(frames[c].op, frames[c].args)
    /\ \A c1, c2 \in Callers :
           (/\ Returned(c1) /\ Returned(c2)
            /\ frames[c1].op = frames[c2].op
            /\ frames[c1].args = frames[c2].args)
               => frames[c1].result = frames[c2].result

\* C10 witness: caller 1 has returned from calculate_news2 while caller 2,
\* called with other arguments, is in the middle of its own calculate_news2.
C10_Witness ==
    /\ Returned(1)
    /\ frames[1].op = "calculate_news2"
    /\ frames[1].args = News2Patient
    /\ frames[1].result.total_score = 18
    /\ Running(2, "calculate_news2", "temperature")
    /\ frames[2].args = News2Well
    /\ locals[2] # EmptyDict

-----------------------------------------------------------------------------
(* Properties of calls with absent inputs (SpecAbsent) *)

IsAbsentCall == call # NoCall /\ call.absent # {}

Raised == "raised" \in DOMAIN result

\* C11: every call of one of the four calculators in which a required input
\* is absent (None) ends by returning a result that reports the problem (it
\* carries an error indicator); no exception leaves the calculator.
C11_AbsentInputReported ==
    IsAbsentCall => (~Raised /\ "error" \in DOMAIN result)

\* C11, the case that holds: calculate_qsofa returns the insufficient-input
\* result whenever one of its three inputs is absent.
C11_QsofaReports ==
    (IsAbsentCall /\ call.op = "calculate_qsofa") => result = qsofa_missing_input

\* C11: a calculate_total_sofa call without pao2_fio2 has ended in TypeError.
C11_TotalSofaRaisedReached ==
    /\ IsAbsentCall
    /\ call.op = "calculate_total_sofa"
    /\ call.absent = {"pao2_fio2"}
    /\ result = TypeError

\* C11: a calculate_total_sofa call without map_mmhg but with a vasopressor
\* running has returned a score and no error indicator.
C11_AbsentMapScoredReached ==
    /\ IsAbsentCall
    /\ call.op = "calculate_total_sofa"
    /\ call.absent = {"map_mmhg"}
    /\ ~Raised
    /\ result.individual_scores.cardiovascular = 3
    /\ "error" \notin DOMAIN result

\* C11: a calculate_news2 call without level_of_consciousness has ended in
\* AttributeError.
C11_News2AttributeErrorReached ==
    /\ IsAbsentCall
    /\ call.op = "calculate_news2"
    /\ call.absent = {"level_of_consciousness"}
    /\ result = AttributeError

-----------------------------------------------------------------------------
(* Properties of the SOFA interpretation and mortality estimate *)

\* The band text the total alone selects
SofaBandText(total) ==
    IF total = 0 THEN "Normal organ function - no signs of organ dysfunction"
    ELSE IF total \in 1..6 THEN "Mild to moderate organ dysfunction"
    ELSE IF total \in 7..12 THEN "Severe organ dysfunction"
    ELSE "Very severe organ dysfunction - critical condition"

\* C12: the interpretation of every calculate_total_sofa result is the band
\* text chosen by the total alone (0; 1..6; 7..12; above 12), followed by the
\* sepsis-criteria-met suffix exactly when sepsis_criteria_met is true,
\* a total of 0 with a negative baseline included.
C12_SofaInterpretation ==
    IsSofaCall =>
        result.interpretation =
            IF result.sepsis_criteria_met
            THEN SofaBandText(result.total_sofa) \o SepsisSuffix
            ELSE SofaBandText(result.total_sofa)

\* C12, away from a total of 0: the band text with the suffix exactly when
\* sepsis_criteria_met is true.
C12_NonzeroTotalInterpretation ==
    (IsSofaCall /\ result.total_sofa # 0) =>
        result.interpretation =
            IF result.sepsis_criteria_met
            THEN SofaBandText(result.total_sofa) \o SepsisSuffix
            ELSE SofaBandText(result.total_sofa)

\* C12: a result with total 0 and baseline -2 has sepsis_criteria_met true
\* and the normal text with no suffix.
C12_NormalWithoutSuffixReached ==
    /\ IsSofaCall
    /\ result.total_sofa = 0
    /\ result.baseline_sofa = -2
    /\ result.sepsis_criteria_met
    /\ result.interpretation = SofaBandText(0)

\* The snapshots' own results, to compare any result with
SnapshotResults ==
    {calculate_total_sofa(SofaArgs(b, None)) : b \in SofaSnapshots}

\* C13: estimated_mortality_risk_percent is min(10 + 5*total_sofa, 90): it
\* is 10 + 5*total below a total of 16 and 90 from 16 on, lies in 10..90,
\* and is never lower than that of a result with a smaller total.
C13_MortalityEstimate ==
    IsSofaCall =>
        LET t == result.total_sofa
            r == result.estimated_mortality_risk_percent
        IN  /\ t \in 0..24
            /\ r \in 10..90
            /\ t < 16 => r = 10 + 5 * t
            /\ t >= 16 => r = 90
            /\ \A o \in SnapshotResults :
                   /\ o.total_sofa <= t => o.estimated_mortality_risk_percent <= r
                   /\ o.total_sofa >= t => o.estimated_mortality_risk_percent >= r

\* C13 witness: a result whose total of 17 is past the cap, with 90 percent.
C13_Witness ==
    /\ IsSofaCall
    /\ result.total_sofa = 17
    /\ result.estimated_mortality_risk_percent = 90

\* C13: the last total below the cap, 15, gives 85 percent.
C13_BelowCapReached ==
    /\ IsSofaCall
    /\ result.total_sofa = 15
    /\ result.estimated_mortality_risk_percent = 85

-----------------------------------------------------------------------------
(* Properties of the SOFA sub-scorers, read off calculate_total_sofa calls *)

AllDosesZero ==
    /\ call.args.dopamine_dose = 0
    /\ call.args.dobutamine_dose = 0
    /\ call.args.epinephrine_dose = 0
    /\ call.args.norepinephrine_dose = 0

\* The dose conditions of bands 2, 3 and 4 (doses in hundredths)
DoseBand2 ==
    \/ call.args.dopamine_dose > 0 /\ call.args.dopamine_dose <= 500
    \/ call.args.dobutamine_dose > 0

DoseBand3 ==
    \/ call.args.dopamine_dose > 500 /\ call.args.dopamine_dose <= 1500
    \/ call.args.epinephrine_dose > 0 /\ call.args.epinephrine_dose <= 10
    \/ call.args.norepinephrine_dose > 0 /\ call.args.norepinephrine_dose <= 10

DoseBand4 ==
    \/ call.args.dopamine_dose > 1500
    \/ call.args.epinephrine_dose > 10
    \/ call.args.norepinephrine_dose > 10

\* C14: with all four doses zero the cardiovascular score is 0 when
\* MAP >= 70 and 1 otherwise; with a nonzero dose the first of bands 2, 3, 4
\* whose dose condition holds is returned, so band 2 wins over bands 3 and 4
\* and band 3 wins over band 4.
C14_CardiovascularBands ==
    IsSofaCall =>
        LET s == result.individual_scores.cardiovascular
        IN  /\ AllDosesZero => s = (IF call.args.map_mmhg >= 70 THEN 0 ELSE 1)
            /\ (~AllDosesZero /\ DoseBand2) => s = 2
            /\ (~AllDosesZero /\ ~DoseBand2 /\ DoseBand3) => s = 3
            /\ (~AllDosesZero /\ ~DoseBand2 /\ ~DoseBand3 /\ DoseBand4) => s = 4

\* C14 witness: dopamine 3 (band 2) together with norepinephrine 0.11
\* (band 4) has scored 2.
C14_Witness ==
    /\ IsSofaCall
    /\ call.args.dopamine_dose = 300
    /\ call.args.norepinephrine_dose = 11
    /\ DoseBand2 /\ DoseBand4
    /\ result.individual_scores.cardiovascular = 2

\* C14: epinephrine 0.05 (band 3) together with norepinephrine 0.11 (band 4)
\* and no band-2 dose has scored 3.
C14_Band3OverBand4Reached ==
    /\ IsSofaCall
    /\ ~DoseBand2 /\ DoseBand3 /\ DoseBand4
    /\ call.args.epinephrine_dose = 5
    /\ call.args.norepinephrine_dose = 11
    /\ result.individual_scores.cardiovascular = 3

\* C14: no dose and a MAP of 69 has scored 1.
C14_LowMapReached ==
    /\ IsSofaCall
    /\ AllDosesZero
    /\ call.args.map_mmhg = 69
    /\ result.individual_scores.cardiovascular = 1

\* C15: the respiration score is 0 for a ratio >= 400, 1 for [300,400),
\* 2 for [200,300), and below 200 it is 3 for [100,200) and 4 under 100 with
\* respiratory support but exactly 2 without; for a fixed support flag a
\* lower ratio never scores less; the final fallback return (line 66) is
\* never the one taken.
C15_RespirationLadder ==
    IsSofaCall =>
        LET r == call.args.pao2_fio2
            support == call.args.respiratory_support
            s == result.individual_scores.respiration
        IN  /\ r >= 400 => s = 0
            /\ (300 <= r /\ r < 400) => s = 1
            /\ (200 <= r /\ r < 300) => s = 2
            /\ (100 <= r /\ r < 200 /\ support) => s = 3
            /\ (r < 100 /\ support) => s = 4
            /\ (r < 200 /\ ~support) => s = 2
            /\ ~support => s <= 2
            /\ \A lower \in PaO2FiO2Values :
                   lower <= r => calculate_sofa_respiration(lower, support) >= s
            /\ sofa_respiration_return_line(r, support) # 66

\* C15 witness: a ratio of 50 without respiratory support has scored 2.
C15_Witness ==
    /\ IsSofaCall
    /\ call.args.pao2_fio2 = 50
    /\ ~call.args.respiratory_support
    /\ result.individual_scores.respiration = 2

\* C15: a ratio of 99 with respiratory support has scored 4.
C15_SupportedBand4Reached ==
    /\ IsSofaCall
    /\ call.args.pao2_fio2 = 99
    /\ call.args.respiratory_support
    /\ result.individual_scores.respiration = 4

\* The creatinine score of the call's creatinine (hundredths of mg/dL)
CreatinineScore ==
    IF call.args.creatinine >= 500 THEN 4
    ELSE IF call.args.creatinine >= 350 THEN 3
    ELSE IF call.args.creatinine >= 200 THEN 2
    ELSE IF call.args.creatinine >= 120 THEN 1
    ELSE 0

\* C16: without urine output the renal score is the creatinine score (4 for
\* >= 5.0, 3 for >= 3.5, 2 for >= 2.0, 1 for >= 1.2, else 0); with urine
\* output supplied, 0 included, it is the larger of the creatinine score and
\* the urine score (4 under 200, 1 under 500, else 0), so it is never below
\* the creatinine score.
C16_RenalScore ==
    IsSofaCall =>
        LET u == call.args.urine_output_ml_day
            s == result.individual_scores.renal
        IN  /\ u = None => s = CreatinineScore
            /\ u # None =>
                   LET urine_score == IF u[1] < 200 THEN 4
                                      ELSE IF u[1] < 500 THEN 1 ELSE 0
                   IN  s = Max(CreatinineScore, urine_score)
            /\ s >= CreatinineScore

\* C16 witness: a urine output of 0 supplied with a creatinine of 1.0 has
\* scored 4.
C16_Witness ==
    /\ IsSofaCall
    /\ call.args.urine_output_ml_day = Some(0)
    /\ call.args.creatinine = 100
    /\ result.individual_scores.renal = 4

\* C16: a creatinine of 3.5 with a urine output of 499 has scored 3.
C16_CreatinineAboveUrineReached ==
    /\ IsSofaCall
    /\ call.args.urine_output_ml_day = Some(499)
    /\ call.args.creatinine = 350
    /\ result.individual_scores.renal = 3

\* C17: for a GCS in 3..15 the cns score is 0 for 15, 1 for 13..14, 2 for
\* 10..12, 3 for 6..9 and 4 for 5 or less, and a lower GCS never scores
\* less; a GCS outside 3..15 is scored too, and one above 15 scores 4.
C17_CnsLadder ==
    IsSofaCall =>
        LET g == call.args.gcs
            s == result.individual_scores.cns
        IN  /\ g = 15 => s = 0
            /\ g \in 13..14 => s = 1
            /\ g \in 10..12 => s = 2
            /\ g \in 6..9 => s = 3
            /\ g \in 3..5 => s = 4
            /\ g \in 3..15 =>
                   \A lower \in 3..15 : lower <= g => calculate_sofa_cns(lower) >= s
            /\ g \notin 3..15 => s \in 0..4
            /\ g > 15 => s = 4

\* C17 witness: a GCS of 16 has scored 4.
C17_Witness ==
    /\ IsSofaCall
    /\ call.args.gcs = 16
    /\ result.individual_scores.cns = 4

\* C17: a GCS of 13 has scored 1.
C17_Band1Reached ==
    /\ IsSofaCall
    /\ call.args.gcs = 13
    /\ result.individual_scores.cns = 1

\* C18: the coagulation score is 0 for platelets >= 150, 1 for >= 100, 2 for
\* >= 50, 3 for >= 20 and 4 below 20, a negative count included; the
\* boundaries 150, 100, 50, 20 belong to the milder band and a lower count
\* never scores less.
C18_CoagulationLadder ==
    IsSofaCall =>
        LET p == call.args.platelets
            s == result.individual_scores.coagulation
        IN  /\ p >= 150 => s = 0
            /\ (100 <= p /\ p < 150) => s = 1
            /\ (50 <= p /\ p < 100) => s = 2
            /\ (20 <= p /\ p < 50) => s = 3
            /\ p < 20 => s = 4
            /\ \A lower \in PlateletValues :
                   lower <= p => calculate_sofa_coagulation(lower) >= s

\* C18 witness: a platelet count of -5 has scored 4.
C18_Witness ==
    /\ IsSofaCall
    /\ call.args.platelets = -5
    /\ result.individual_scores.coagulation = 4

\* C18: the boundary count 20 has scored 3.
C18_BoundaryReached ==
    /\ IsSofaCall
    /\ call.args.platelets = 20
    /\ result.individual_scores.coagulation = 3

-----------------------------------------------------------------------------
(* Properties of the qSOFA texts *)

\* The result of the same call made with suspected_infection true
QsofaWithInfection ==
    calculate_qsofa(call.args.respiratory_rate, call.args.systolic_bp,
                    call.args.gcs, TRUE)

\* C19: with all three inputs present, the criteria, qsofa_score and
\* high-risk flag do not depend on suspected_infection; when it is false the
\* interpretation and the recommendation are the two fixed infection-source
\* texts whatever the score; when it is true the interpretation is the
\* low-risk text for 0, the intermediate text for 1 and the high-risk text
\* for 2 and 3; "Invalid qSOFA score." is never returned.
C19_QsofaTexts ==
    (IsQsofaCall /\ ~QsofaInputMissing) =>
        /\ result.qsofa_score \in 0..3
        /\ result.criteria_met = QsofaWithInfection.criteria_met
        /\ result.qsofa_score = QsofaWithInfection.qsofa_score
        /\ result.high_risk_for_poor_outcomes
               = QsofaWithInfection.high_risk_for_poor_outcomes
        /\ ~call.args.suspected_infection =>
               /\ result.interpretation
                      = "qSOFA should be used in patients with suspected infection"
               /\ result.recommendations = "Assess for infection source first"
        /\ call.args.suspected_infection =>
               result.interpretation =
                   CASE result.qsofa_score = 0 ->
                            "Low risk - no qSOFA criteria met"
                     [] result.qsofa_score = 1 ->
                            "Intermediate risk - one qSOFA criterion met, monitor closely"
                     [] result.qsofa_score \in 2..3 ->
                            "HIGH RISK - qSOFA >=2 suggests increased risk of poor outcomes (ICU stay, death)"
        /\ result.interpretation # "Invalid qSOFA score."

\* C19 witness: a call without suspected infection whose score is 3 has
\* returned the score, the high-risk flag and the infection-source texts.
C19_Witness ==
    /\ IsQsofaCall
    /\ ~QsofaInputMissing
    /\ ~call.args.suspected_infection
    /\ result.qsofa_score = 3
    /\ result.high_risk_for_poor_outcomes
    /\ result.interpretation
           = "qSOFA should be used in patients with suspected infection"
    /\ result.recommendations = "Assess for infection source first"

\* C19: with suspected infection, a score of 0 has the low-risk text.
C19_LowRiskReached ==
    /\ IsQsofaCall
    /\ ~QsofaInputMissing
    /\ call.args.suspected_infection
    /\ result.qsofa_score = 0
    /\ result.interpretation = "Low risk - no qSOFA criteria met"

\* C19: with suspected infection, a score of 1 has the intermediate text.
C19_IntermediateReached ==
    /\ IsQsofaCall
    /\ ~QsofaInputMissing
    /\ call.args.suspected_infection
    /\ result.qsofa_score = 1
    /\ result.interpretation
           = "Intermediate risk - one qSOFA criterion met, monitor closely"

-----------------------------------------------------------------------------
(* Properties of the NEWS2 entries that are not vital-sign ladders *)

News2EntryKeys ==
    {"respiratory_rate", "oxygen_saturation", "SpO2_Scale_1", "SpO2_Scale_2",
     "Age", "Fio2", "systolic_bp", "heart_rate", "level_of_consciousness",
     "temperature"}

NotAlertLevels ==
    { <<"V", "o", "i", "c", "e">>, <<"P", "a", "i", "n">>,
      <<"U", "n", "r", "e", "s", "p", "o", "n", "s", "i", "v", "e">> }

\* What the entry k adds to the total: its value, or nothing when not set
News2Points(k) ==
    IF k \in DOMAIN result.individual_scores
    THEN result.individual_scores[k] ELSE 0

\* C20: in every calculate_news2 result the Fio2 entry is 2 when
\* supplemental_oxygen is true and 0 when false, whatever the saturations;
\* level_of_consciousness is 0 for Alert and 3 for Voice, Pain and
\* Unresponsive; Age is 0 under 40, 1 for 40..65, 2 for 66..79, 3 from 80;
\* every entry is in 0..3 and total_score is the sum of the entries, never
\* negative.
C20_News2OtherEntries ==
    IsNews2Call =>
        LET sc == result.individual_scores
            a == call.args
        IN  /\ "Fio2" \in DOMAIN sc
            /\ sc["Fio2"] = (IF a.supplemental_oxygen THEN 2 ELSE 0)
            /\ "level_of_consciousness" \in DOMAIN sc
            /\ a.level_of_consciousness = Alert
                   => sc["level_of_consciousness"] = 0
            /\ a.level_of_consciousness \in NotAlertLevels
                   => sc["level_of_consciousness"] = 3
            /\ "Age" \in DOMAIN sc
            /\ a.Age < 40 => sc["Age"] = 0
            /\ a.Age \in 40..65 => sc["Age"] = 1
            /\ a.Age \in 66..79 => sc["Age"] = 2
            /\ a.Age >= 80 => sc["Age"] = 3
            /\ DOMAIN sc \subseteq News2EntryKeys
            /\ \A k \in DOMAIN sc : sc[k] \in 0..3
            /\ result.total_score
                   = News2Points("respiratory_rate") + News2Points("oxygen_saturation")
                     + News2Points("SpO2_Scale_1") + News2Points("SpO2_Scale_2")
                     + News2Points("Age") + News2Points("Fio2")
                     + News2Points("systolic_bp") + News2Points("heart_rate")
                     + News2Points("level_of_consciousness")
                     + News2Points("temperature")
            /\ result.total_score >= 0

\* C20 witness: a call with supplemental oxygen, level Voice and age 80 has
\* the entries Fio2 2, level_of_consciousness 3 and Age 3.
C20_Witness ==
    /\ IsNews2Call
    /\ call.args.supplemental_oxygen
    /\ call.args.level_of_consciousness = <<"V", "o", "i", "c", "e">>
    /\ call.args.Age = 80
    /\ result.individual_scores["Fio2"] = 2
    /\ result.individual_scores["level_of_consciousness"] = 3
    /\ result.individual_scores["Age"] = 3

\* C20: a call without supplemental oxygen and with saturations of 90 and 80
\* has the Fio2 entry 0.
C20_NoOxygenLowSaturationReached ==
    /\ IsNews2Call
    /\ ~call.args.supplemental_oxygen
    /\ call.args.SpO2_Scale_1 = 90
    /\ call.args.SpO2_Scale_2 = 80
    /\ result.individual_scores["Fio2"] = 0

-----------------------------------------------------------------------------
(* Properties of the web application (SpecApp) *)

IsAnswerOf(route) == response.route = route

News2ArgumentError == "Error calculating NEWS2: TypeError"

\* C21: every call of calculate_news2 made by the repository fails on its
\* arguments: news2_test and news2_calculator, given a form that parses,
\* flash the argument error and show no result, example_usage ends in the
\* same TypeError, no SofaTest row of test_type 'news2' is ever stored, and
\* the dashboard's news2_risk is None for every patient.
C21_News2NeverStored ==
    /\ \A i \in DOMAIN sofa_tests : sofa_tests[i].test_type # "news2"
    /\ IsAnswerOf("news2_test") /\ response.status = 200 /\ response.well_formed
           => /\ response.flashed = News2ArgumentError
              /\ response.page = "news2_test_form.html"
    /\ IsAnswerOf("news2_calculator") /\ response.status = 200
         /\ response.well_formed
           => /\ response.flashed = News2ArgumentError
              /\ response.result = None
    /\ IsAnswerOf("example_usage") => response.outcome = TypeError
    /\ IsAnswerOf("dashboard") /\ response.status = 200
           => \A d \in response.patient_data : d.news2_risk = None

\* C21 witness: a logged-in doctor posts a form that parses to news2_test for
\* a patient of theirs that already has a stored test; the argument error is
\* flashed.
C21_Witness ==
    /\ IsAnswerOf("news2_test")
    /\ response.status = 200
    /\ response.well_formed
    /\ response.flashed = News2ArgumentError
    /\ tests_of(response.patient_id) # {}

\* C21: the dashboard lists a patient that has tests, with news2_risk None.
C21_DashboardReached ==
    /\ IsAnswerOf("dashboard")
    /\ response.status = 200
    /\ \E d \in response.patient_data :
           tests_of(d.patient.id) # {} /\ d.news2_risk = None

\* The routes that name a patient in their URL
PatientRoutes ==
    { "patient_detail", "patient_sofa_tests_api", "new_sofa_test", "qsofa_test",
      "sofa_test", "septic_shock_test", "news2_test", "delete_patient",
      "delete_sofa_test" }

\* The rows of the SofaTest table, as a set
StoredTests == {sofa_tests[i] : i \in DOMAIN sofa_tests}

\* The step that handles a request to a patient route, read from the answer
\* it leaves: b is the browser, patient_id the patient named, owned whether
\* that patient is one of the doctor logged in at b.
C22_Step ==
    response'.route \in PatientRoutes =>
        LET b == response'.browser
            patient_id == response'.patient_id
            owned == \E p \in patients :
                         p.id = patient_id /\ sessions[b] = Some(p.doctor_id)
            removed == StoredTests \ {sofa_tests'[i] : i \in DOMAIN sofa_tests'}
        IN  /\ sessions[b] = None
                  => /\ response'.status = 302
                     /\ response'.location = "login"
                     /\ UNCHANGED <<users, patients, sofa_tests, sessions>>
            /\ sessions[b] # None /\ ~owned
                  => /\ response'.status = 404
                     /\ UNCHANGED <<users, patients, sofa_tests, sessions>>
            /\ response'.route = "delete_sofa_test"
                  => \A test \in removed :
                         /\ test.patient_id = patient_id
                         /\ test.id = response'.test_id
            /\ response'.route \in {"patient_detail", "patient_sofa_tests_api"}
                 /\ response'.status = 200
                  => /\ sessions[b] = Some(response'.patient.doctor_id)
                     /\ response'.patient.id = patient_id
                     /\ \A test \in response'.sofa_tests :
                            test.patient_id = patient_id

\* C22: a request that names a patient whose doctor_id is not the current
\* user's id is answered not-found and changes no table, whatever the route
\* (read, add a test, delete a test, delete the patient); delete_sofa_test
\* removes only a test of the patient in its URL; a request without a login
\* is redirected to the login page and changes no Patient or SofaTest row.
C22_PerDoctorIsolation == [][C22_Step]_vars

\* C22 witness: a logged-in doctor asks to delete a patient of another doctor
\* that has a stored test; the answer is 404 and patient and test are there.
C22_Witness ==
    /\ IsAnswerOf("delete_patient")
    /\ response.status = 404
    /\ sessions[response.browser] # None
    /\ \E p \in patients :
           /\ p.id = response.patient_id
           /\ sessions[response.browser] # Some(p.doctor_id)
           /\ tests_of(p.id) # {}

\* C22: delete_sofa_test names a patient of the current user and a test of
\* another patient of theirs; the answer is 404 and the test is there.
C22_TestOfOtherPatientReached ==
    /\ IsAnswerOf("delete_sofa_test")
    /\ response.status = 404
    /\ \E p \in patients :
           /\ p.id = response.patient_id
           /\ sessions[response.browser] = Some(p.doctor_id)
    /\ \E test \in StoredTests :
           test.id = response.test_id /\ test.patient_id # response.patient_id

\* C22: a request to add a test, sent without a login, is redirected while
\* the patient it names exists.
C22_AnonymousReached ==
    /\ IsAnswerOf("qsofa_test")
    /\ response.status = 302
    /\ response.location = "login"
    /\ \E p \in patients : p.id = response.patient_id

\* Every stored test belongs to a stored patient
NoOrphanTest ==
    \A test \in StoredTests : \E p \in patients : p.id = test.patient_id

\* The step in which delete_patient deletes: the patient named and every
\* test of theirs are gone, every other patient and test is as it was.
C23_DeleteStep ==
    /\ response'.route = "delete_patient"
    /\ response'.status = 302
    /\ response'.location = "dashboard"
    =>
        LET patient_id == response'.patient_id
            after == {sofa_tests'[i] : i \in DOMAIN sofa_tests'}
        IN  /\ \E p \in patients : p.id = patient_id
            /\ patients' = {p \in patients : p.id # patient_id}
            /\ after = {test \in StoredTests : test.patient_id # patient_id}
            /\ Len(sofa_tests') = Cardinality(after)
            /\ \A i, j \in DOMAIN sofa_tests :
                   /\ i < j
                   /\ sofa_tests[i].patient_id # patient_id
                   /\ sofa_tests[j].patient_id # patient_id
                   => \E k, l \in DOMAIN sofa_tests' :
                          /\ k < l
                          /\ sofa_tests'[k] = sofa_tests[i]
                          /\ sofa_tests'[l] = sofa_tests[j]

\* C23: no test outlives its patient.  After any sequence of requests, each
\* handled to its end before the next, every SofaTest row's patient_id is
\* the id of a stored Patient; delete_patient removes all of that patient's
\* rows together with the patient and leaves every other patient's rows as
\* they were.
C23_NoTestOutlivesPatient == []NoOrphanTest /\ [][C23_DeleteStep]_vars

\* C23 witness: delete_patient has deleted a patient while a test of another
\* patient stays stored.
C23_Witness ==
    /\ IsAnswerOf("delete_patient")
    /\ response.status = 302
    /\ response.location = "dashboard"
    /\ patients # {}
    /\ sofa_tests # <<>>
    /\ NoOrphanTest

-----------------------------------------------------------------------------
(* Further properties of the calculators, read off their calls (Spec) *)

NoDoseNegative ==
    /\ call.args.dopamine_dose >= 0
    /\ call.args.dobutamine_dose >= 0
    /\ call.args.epinephrine_dose >= 0
    /\ call.args.norepinephrine_dose >= 0

\* The cardiovascular score of the call's doses at another MAP
CardiovascularAt(map_mmhg) ==
    calculate_sofa_cardiovascular(map_mmhg, call.args.dopamine_dose,
        call.args.dobutamine_dose, call.args.epinephrine_dose,
        call.args.norepinephrine_dose)

CardiovascularReturnLine ==
    sofa_cardiovascular_return_line(call.args.map_mmhg,
        call.args.dopamine_dose, call.args.dobutamine_dose,
        call.args.epinephrine_dose, call.args.norepinephrine_dose)

\* C24: with four non-negative doses of which at least one is positive the
\* cardiovascular score is 2, 3 or 4 and the same at every MAP; with
\* non-negative doses 0 and 1 are scored only when all four doses are zero;
\* the final fallback return (line 121, scoring 1) is left through only
\* when some dose is negative.
C24_DosesDecideScore ==
    IsSofaCall =>
        LET s == result.individual_scores.cardiovascular
        IN  /\ NoDoseNegative /\ ~AllDosesZero
                  => /\ s \in {2, 3, 4}
                     /\ \A m \in SofaMapValues : CardiovascularAt(m) = s
            /\ NoDoseNegative /\ s \in {0, 1} => AllDosesZero
            /\ CardiovascularReturnLine = 121 => s = 1 /\ ~NoDoseNegative
            /\ CardiovascularReturnLine \in {103, 105} => AllDosesZero
            /\ s = CASE CardiovascularReturnLine = 103 -> 0
                     [] CardiovascularReturnLine = 110 -> 2
                     [] CardiovascularReturnLine = 115 -> 3
                     [] CardiovascularReturnLine = 118 -> 4
                     [] OTHER -> 1

\* C24 witness: a dopamine dose of -1 with no other dose and a MAP of 70 has
\* left through the fallback return and scored 1.
C24_Witness ==
    /\ IsSofaCall
    /\ call.args.dopamine_dose = -100
    /\ call.args.dobutamine_dose = 0
    /\ call.args.epinephrine_dose = 0
    /\ call.args.norepinephrine_dose = 0
    /\ call.args.map_mmhg = 70
    /\ CardiovascularReturnLine = 121
    /\ result.individual_scores.cardiovascular = 1

\* C24: dobutamine alone at a MAP of 65 has scored 2, as it does at 70.
C24_LowMapWithDoseReached ==
    /\ IsSofaCall
    /\ NoDoseNegative
    /\ call.args.dopamine_dose = 0
    /\ call.args.dobutamine_dose = 250
    /\ call.args.map_mmhg = 65
    /\ result.individual_scores.cardiovascular = 2
    /\ CardiovascularAt(70) = 2

\* What the two saturation scales add to the total, by the value alone
Scale1Points(SpO2_Scale_1) ==
    IF SpO2_Scale_1 >= 96 THEN 0
    ELSE IF SpO2_Scale_1 \in 94..95 THEN 1
    ELSE IF SpO2_Scale_1 \in 92..93 THEN 2
    ELSE 3

Scale2Points(SpO2_Scale_2) ==
    IF SpO2_Scale_2 >= 92 THEN 0
    ELSE IF SpO2_Scale_2 \in 86..87 THEN 1
    ELSE IF SpO2_Scale_2 \in 84..85 THEN 2
    ELSE 3

\* The entries of the call's result had the oxygen flag been the other one
ScoresWithOtherOxygenFlag ==
    calculate_news2([call.args EXCEPT !.supplemental_oxygen = ~@]).individual_scores

\* C25: the SpO2 Scale 2 contribution depends on SpO2_Scale_2 alone, not on
\* the supplemental-oxygen flag: 0 from 92 up, 1 for 86..87, 2 for 84..85
\* and 3 for every other value (83 and below, and 88..91); the Scale 1 and
\* the Scale 2 contribution are both computed on every call and both are
\* part of total_score; the shared entry 'oxygen_saturation' only ever
\* holds 0.
C25_Scale2ByValueAlone ==
    IsNews2Call =>
        LET sc == result.individual_scores
            a == call.args
            other == ScoresWithOtherOxygenFlag
        IN  /\ a.SpO2_Scale_2 >= 92
                  => /\ "oxygen_saturation" \in DOMAIN sc
                     /\ "SpO2_Scale_2" \notin DOMAIN sc
            /\ a.SpO2_Scale_2 < 92
                  => /\ "SpO2_Scale_2" \in DOMAIN sc
                     /\ sc["SpO2_Scale_2"] = Scale2Points(a.SpO2_Scale_2)
                     /\ sc["SpO2_Scale_2"] \in 1..3
            /\ a.SpO2_Scale_1 >= 96
                  => /\ "oxygen_saturation" \in DOMAIN sc
                     /\ "SpO2_Scale_1" \notin DOMAIN sc
            /\ a.SpO2_Scale_1 < 96
                  => /\ "SpO2_Scale_1" \in DOMAIN sc
                     /\ sc["SpO2_Scale_1"] = Scale1Points(a.SpO2_Scale_1)
            /\ "oxygen_saturation" \in DOMAIN sc => sc["oxygen_saturation"] = 0
            /\ \A k \in SaturationKeys :
                   /\ (k \in DOMAIN sc) = (k \in DOMAIN other)
                   /\ k \in DOMAIN sc => sc[k] = other[k]
            /\ result.total_score
                   = Scale1Points(a.SpO2_Scale_1) + Scale2Points(a.SpO2_Scale_2)
                     + News2Points("respiratory_rate") + News2Points("Age")
                     + News2Points("Fio2") + News2Points("systolic_bp")
                     + News2Points("heart_rate")
                     + News2Points("level_of_consciousness")
                     + News2Points("temperature")

\* C25 witness: on supplemental oxygen a Scale 2 saturation of 88 has
\* scored 3 while the Scale 1 saturation of 94 has scored 1, both entries
\* being in the result.
C25_Witness ==
    /\ IsNews2Call
    /\ call.args.supplemental_oxygen
    /\ call.args.SpO2_Scale_2 = 88
    /\ call.args.SpO2_Scale_1 = 94
    /\ result.individual_scores["SpO2_Scale_2"] = 3
    /\ result.individual_scores["SpO2_Scale_1"] = 1
    /\ ScoresWithOtherOxygenFlag["SpO2_Scale_2"] = 3

\* C25: on supplemental oxygen a Scale 2 saturation of 94 has scored 0
\* through the shared entry.
C25_OxygenHighSaturationReached ==
    /\ IsNews2Call
    /\ call.args.supplemental_oxygen
    /\ call.args.SpO2_Scale_2 = 94
    /\ call.args.SpO2_Scale_1 = 93
    /\ result.individual_scores["oxygen_saturation"] = 0
    /\ "SpO2_Scale_2" \notin DOMAIN result.individual_scores

====
